---- MODULE Spec2Model ----
(***************************************************************************)
(* Trading analytics suite: the analytics engine described by the design   *)
(* (SymbolBuffer, AlertEngine, Broadcaster; its code, QAbackend/main.py,   *)
(* is not part of the sources at hand) and the React client that consumes  *)
(* it (useAlertsManager, TradingDashboard, OHLCUploadWidget, ...).         *)
(*                                                                         *)
(* Each component is a state machine of its own over its own variables;    *)
(* a specification SpecX runs one component and leaves the others idle.    *)
(***************************************************************************)
EXTENDS Integers, Sequences, FiniteSets, TLC

VARIABLES
    \* ---- OHLCUploadWidget / capability gate
    tick_count,      \* analytics.tick_count: symbol -> number of ticks
    aligned_points,  \* timestamps common to both symbols' buffers
    data_points,     \* analytics.data_points
    zscore,          \* analytics.zscore: symbol -> z-score times ten, or NullZ
    ticksSeen,       \* ticks ingested since the initial state
    \* ---- SymbolBuffer
    buffer,          \* the ring of one symbol, oldest first
    pushed,          \* every tick accepted so far, in insertion order
    lastEvicted,     \* <<the tick removed by the last push>>, or <<>>
    ingestResult,    \* what the last ingest returned
    ingestCalls,     \* number of ingest calls so far
    lastTick,        \* <<the tick of the last ingest call>>, or <<>>
    \* ---- AlertEngine and Broadcaster
    rules,           \* rule store: the AlertRules by id (a set of records)
    nextRuleId,      \* the id the next created rule gets
    deletedIds,      \* ids whose delete_rule has returned ok
    lastSat,         \* last-known evaluation result per rule id
    history,         \* triggered-alert history, oldest first
    emitted,         \* number of TriggeredAlerts emitted so far
    snapshot,        \* the latest analytics snapshot
    lastPublished,   \* the snapshot last sent to the subscribers
    lock,            \* holder of the engine's mutual-exclusion scope
    evalPc,          \* position of the ingestion path
    evalView,        \* the rules the evaluation in flight captured
    evalFired,       \* the alerts the evaluation in flight triggered
    streak,          \* per rule: consecutive evaluations with the condition satisfied
    streakAlerts,    \* per rule: alerts emitted during the current streak
    subscribers,     \* live subscribers
    queue,           \* per subscriber: bounded outbound queue
    prePublish,      \* subscribers, queues and items at the last publish
    engineSteps,     \* ticks ingested so far
    \* ---- useAlertsManager: alert rules
    alerts,          \* useState alerts: the ids of the listed rules
    loading,         \* useState loading
    error,           \* useState error ("null" or the kind of message)
    fetchCalls,      \* fetchAlerts calls in flight, by the place that made them
    createPc,        \* position of createAlert
    createResp,      \* response of POST /api/alerts
    deletePc,        \* position of deleteAlert
    deleteId,        \* the id deleteAlert was called with
    deleteResp,      \* response of DELETE /api/alerts/{id}
    refreshTimer,    \* setTimeout(fetchAlerts, 100) pending
    hookCalls,       \* calls made to the hook so far
    roundTrip,       \* bookkeeping of one create-then-delete round trip
    \* ---- useAlertsManager: triggered alerts
    triggeredAlerts, \* useState triggeredAlerts
    hookWs,          \* the hook's WebSocket: "connecting", "open" or "closed"
    pollPc,          \* position of the fetchTriggeredAlerts call in flight
    pollData,        \* the response body of that call
    trigDiscarded,   \* the entry the last alert_triggered message pushed out, if any
    owed,            \* numbers of the alerts emitted while the hook was subscribed
    trigEmits,       \* alerts triggered since the start
    pollLast,        \* the response the last finished fetchTriggeredAlerts handled
    \* ---- TradingDashboard: WebSocket effect, analytics, chart histories
    dashMounted,     \* the component is mounted
    selected,        \* <<selectedSymbol1, selectedSymbol2>>
    effectGen,       \* number of the current run of the WebSocket effect
    analytics,       \* useState analytics: <<>> (null) or <<message>>
    wsConnected,     \* useState wsConnected
    zscoreHistory,   \* useState zscoreHistory
    spreadHistory,   \* useState spreadHistory
    sockets,         \* every WebSocket the component created, in order
    wsRef,           \* wsRef.current: index into sockets, 0 for null
    reconnectRef,    \* reconnectTimeoutRef.current: the socket whose onclose set it, 0 for null
    timers,          \* sockets whose reconnect timer is pending
    dashHandled,     \* the message handled by the last step, the symbols of the
                     \* handler's closure and analytics before it
    dashMsgs,        \* messages handled so far
    historyFor,      \* per history, the selection each of its points was computed for
    \* ---- pair detail query (get_pair_detail / TradingDashboard.runADFTest)
    pairAligned,     \* aligned points of the pair on the server
    adfPc,           \* runADFTest: "idle", "fetching", "responded", "done"
    adfQuery,        \* the two symbols of the request
    adfResp,         \* the response of the request
    adfAt,           \* aligned points of the pair when the server answered
    adfOutcome,      \* what the last finished runADFTest showed
    adfRuns,         \* runADFTest calls so far
    pairTicks,       \* aligned ticks since the initial state
    \* ---- AlertModal (with AlertsWidget as its parent)
    isOpen,          \* showAlertModal of the parent
    formData,        \* {name, condition, symbol, value}; value is the input's text
    submitPc,        \* handleSubmit: "idle", "posting", "responded"
    postBody,        \* the body of the last POST /api/alerts sent, <<>> for none
    postResp,        \* the response of the POST
    modalAlert,      \* the last alert() handleSubmit showed
    onSuccessCalls,  \* calls of onSuccess so far
    modalSubmits,    \* submits of the form so far
    \* ---- ModalProvider (ModalManager) and GlobalModalContainer
    modals,          \* useState modals: per id <<>> (no entry) or <<{isOpen, props}>>
    openedIds,       \* the ids openModal has been called with
    modalOp,         \* the last call: openModal or closeModal, its id and props
    modalOps,        \* calls so far
    \* ---- NotificationsWidget over the hook's triggered alerts
    dismissLog       \* the dismissals so far: the position clicked (0 for
                     \* Clear All) and the numbers of the alerts dismissed

capsVars == <<tick_count, aligned_points, data_points, zscore, ticksSeen>>
bufVars  == <<buffer, pushed, lastEvicted, ingestResult, ingestCalls, lastTick>>
engVars  == <<rules, nextRuleId, deletedIds, lastSat, history, emitted, snapshot,
              lastPublished, lock, evalPc, evalView, evalFired, streak,
              streakAlerts, subscribers, queue, prePublish, engineSteps>>
hookVars == <<alerts, loading, error, fetchCalls, createPc, createResp, deletePc,
              deleteId, deleteResp, refreshTimer, hookCalls, roundTrip>>
trigVars == <<triggeredAlerts, hookWs, pollPc, pollData, trigDiscarded, owed, trigEmits,
              pollLast>>
dashVars == <<dashMounted, selected, effectGen, analytics, wsConnected, zscoreHistory,
              spreadHistory, sockets, wsRef, reconnectRef, timers, dashHandled, dashMsgs,
              historyFor>>
pairVars == <<pairAligned, adfPc, adfQuery, adfResp, adfAt, adfOutcome, adfRuns,
              pairTicks>>
modalVars == <<isOpen, formData, submitPc, postBody, postResp, modalAlert,
               onSuccessCalls, modalSubmits>>
providerVars == <<modals, openedIds, modalOp, modalOps>>
notifVars == <<dismissLog>>
vars     == <<capsVars, bufVars, engVars, hookVars, trigVars, dashVars, pairVars,
              modalVars, providerVars, notifVars>>

Min(a, b) == IF a <= b THEN a ELSE b

RECURSIVE SumOver(_, _)
SumOver(f, S) ==
    IF S = {} THEN 0
    ELSE LET x == CHOOSE y \in S : TRUE IN f[x] + SumOver(f, S \ {x})

(***************************************************************************)
(* Capability gate (OHLCUploadWidget.getCapabilities)                      *)
(***************************************************************************)
Symbols == {"A", "B"}

\* Point counts around every threshold of the gate.
PointCounts == {0, 1, 9, 10, 19, 20, 49, 50, 99, 100, 149, 150, 199, 200}
MaxPoints == 201
MaxTicksSeen == 2

\* z-scores are kept times ten; NullZ is the null z-score (tick_count < 20)
NullZ == -1000
MinWindow == 20
\* what (latest - mean) / std can yield over a window: a value, or null when
\* std == 0
ZOutcomes == {NullZ, 30}

\* RollingStats.zscore of a symbol with n ticks in its window
RollingZScore(n, z) == IF n < MinWindow THEN NullZ ELSE z

\* Object.values(analytics.tick_count).reduce((a, b) => a + b, 0)
WidgetDataPoints(tc) == SumOver(tc, DOMAIN tc)

\* the object getCapabilities returns, reduced to its `enabled` flags
GetCapabilities(dataPoints) ==
    [ basicPriceTracking   |-> dataPoints >= 1,
      volumeAnalysis       |-> dataPoints >= 10,
      zScoreCalculation    |-> dataPoints >= 20,
      volatilityMetrics    |-> dataPoints >= 50,
      correlationAnalysis  |-> dataPoints >= 100,
      spreadTrading        |-> dataPoints >= 100,
      hedgeRatioCalc       |-> dataPoints >= 150,
      adfStationarity      |-> dataPoints >= 200,
      fullHistoricalCharts |-> dataPoints >= 200 ]

WidgetCapabilities == GetCapabilities(WidgetDataPoints(tick_count))

CapsIdle ==
    /\ tick_count = [s \in Symbols |-> 0] /\ aligned_points = 0
    /\ data_points = 0 /\ ticksSeen = 0
    /\ zscore = [s \in Symbols |-> NullZ]

CapsInit ==
    /\ tick_count \in [Symbols -> PointCounts]
    /\ aligned_points \in PointCounts
    /\ aligned_points <= Min(tick_count["A"], tick_count["B"])
    /\ data_points \in PointCounts
    /\ \E z \in [Symbols -> ZOutcomes] :
          zscore = [s \in Symbols |-> RollingZScore(tick_count[s], z[s])]
    /\ ticksSeen = 0

\* a tick of one symbol at a timestamp the other symbol has no tick for
IngestOne(s) ==
    /\ tick_count[s] < MaxPoints /\ ticksSeen < MaxTicksSeen
    /\ tick_count' = [tick_count EXCEPT ![s] = @ + 1]
    /\ ticksSeen' = ticksSeen + 1
    /\ data_points' = data_points + 1
    /\ \E z \in ZOutcomes :
          zscore' = [zscore EXCEPT ![s] = RollingZScore(tick_count'[s], z)]
    /\ UNCHANGED aligned_points

\* ticks of both symbols at one timestamp: one more aligned point
IngestAligned ==
    /\ \A s \in Symbols : tick_count[s] < MaxPoints
    /\ ticksSeen < MaxTicksSeen
    /\ ticksSeen' = ticksSeen + 1
    /\ tick_count' = [s \in Symbols |-> tick_count[s] + 1]
    /\ aligned_points' = aligned_points + 1
    /\ data_points' = data_points + 1
    /\ \E z \in [Symbols -> ZOutcomes] :
          zscore' = [s \in Symbols |-> RollingZScore(tick_count'[s], z[s])]

\* C10: each capability flag is enabled exactly when the point count it is
\* about reaches its threshold: the aligned-point count of the pair for the
\* pair features (correlation 100, spread 100, hedge ratio 150, ADF 200), the
\* tick count of a symbol for the single-symbol features (price 1, volume 10,
\* z-score 20, volatility 50).
C10_FlagsMatchPointCount ==
    LET caps == WidgetCapabilities
        Ticks(n) == \E s \in Symbols : tick_count[s] >= n
    IN  /\ caps.basicPriceTracking  = Ticks(1)
        /\ caps.volumeAnalysis      = Ticks(10)
        /\ caps.zScoreCalculation   = Ticks(20)
        /\ caps.volatilityMetrics   = Ticks(50)
        /\ caps.correlationAnalysis = (aligned_points >= 100)
        /\ caps.spreadTrading       = (aligned_points >= 100)
        /\ caps.hedgeRatioCalc      = (aligned_points >= 150)
        /\ caps.adfStationarity     = (aligned_points >= 200)

\* UploadPage: const dataPoints = analytics?.data_points || 0
UploadPageDataPoints == data_points
UploadPageCapabilities == GetCapabilities(UploadPageDataPoints)

\* the verdict that all features are ready: "Time to Full Features" of the
\* widget, "Status" of the upload page, "Time to Full Analytics" of the
\* data status block
WidgetReady == WidgetDataPoints(tick_count) >= 200
UploadPageReady == UploadPageDataPoints >= 200
DataStatusReady == data_points >= 100

AllEnabled(caps) == \A f \in DOMAIN caps : caps[f]

\* C11: the capability gate is one function of the point count: for a
\* snapshot whose data_points is the total of its tick_count, the widget, the
\* upload page and the data status block report the same enabled features
\* and the same all-features-ready verdict.
C11_OneCapabilityGate ==
    data_points = WidgetDataPoints(tick_count) =>
        /\ WidgetCapabilities = UploadPageCapabilities
        /\ WidgetReady = AllEnabled(WidgetCapabilities)
        /\ UploadPageReady = AllEnabled(UploadPageCapabilities)
        /\ DataStatusReady = UploadPageReady
        /\ DataStatusReady = WidgetReady

\* C15: in every snapshot the z-score of a symbol is null while the symbol's
\* tick_count is below 20, and the z-score capability is unlocked exactly
\* when that threshold is reached, that is when some symbol's z-score can be
\* non-null.
C15_ZScoreNullBelowWindow ==
    /\ \A s \in Symbols : tick_count[s] < 20 => zscore[s] = NullZ
    /\ WidgetCapabilities.zScoreCalculation = (\E s \in Symbols : tick_count[s] >= 20)

(***************************************************************************)
(* SymbolBuffer (design sections 3, 4.1 and 6: push / ingest)              *)
(***************************************************************************)
Capacity == 3
MaxPushes == 5
MaxTimestamp == 4
Prices == {1, 2}
Timestamps == 1..MaxTimestamp

LastN(s, n) == IF Len(s) <= n THEN s ELSE SubSeq(s, Len(s) - n + 1, Len(s))

\* an ingest that takes every tick
NeverStale(buf, tick) == FALSE

\* a tick whose timestamp precedes the latest stored timestamp
IsStale(buf, tick) == buf # <<>> /\ tick.timestamp < buf[Len(buf)].timestamp

\* the buffer evicting the newest entry instead of the oldest
PushEvictNewest(buf, tick) ==
    IF Len(buf) >= Capacity
    THEN Append(SubSeq(buf, 1, Len(buf) - 1), tick)
    ELSE Append(buf, tick)

\* push(tick): append, evicting the oldest entry if at capacity
Push(buf, tick) ==
    IF Len(buf) >= Capacity THEN Append(Tail(buf), tick) ELSE Append(buf, tick)

BufIdle ==
    /\ buffer = <<>> /\ pushed = <<>> /\ lastEvicted = <<>>
    /\ ingestResult = "none" /\ ingestCalls = 0 /\ lastTick = <<>>

BufInit == BufIdle

\* ingest(symbol, price, volume, timestamp) -> accepted | rejected: StaleTick
Ingest(p, ts) ==
    /\ ingestCalls < MaxPushes
    /\ ingestCalls' = ingestCalls + 1
    /\ LET tick == [price |-> p, timestamp |-> ts, n |-> ingestCalls + 1] IN
         /\ lastTick' = <<tick>>
         /\ IF IsStale(buffer, tick)
            THEN /\ ingestResult' = "StaleTick"
                 /\ UNCHANGED <<buffer, pushed, lastEvicted>>
            ELSE /\ ingestResult' = "accepted"
                 /\ buffer' = Push(buffer, tick)
                 /\ pushed' = Append(pushed, tick)
                 /\ lastEvicted' = IF Len(buffer) >= Capacity THEN <<Head(buffer)>> ELSE <<>>

\* C2: after any sequence of pushes the buffer holds at most Capacity ticks,
\* and they are the most recently accepted ticks in their insertion order: a
\* push onto a full buffer removed exactly the oldest stored tick.
C2_BufferIsFifoWindow ==
    /\ Len(buffer) <= Capacity
    /\ buffer = LastN(pushed, Capacity)
    /\ (Len(pushed) > Capacity /\ ingestResult = "accepted"
          => lastEvicted = <<pushed[Len(pushed) - Capacity]>>)

\* a push onto a full buffer has happened
C2_Witness == Len(pushed) > Capacity /\ lastEvicted # <<>> /\ Len(buffer) = Capacity

InTimestampOrder(buf) ==
    \A i, j \in 1..Len(buf) : i < j => buf[i].timestamp <= buf[j].timestamp

\* C14: an ingest of a tick whose timestamp precedes the latest stored
\* timestamp returns rejected: StaleTick and leaves the buffer unchanged; the
\* buffer stays in timestamp order; every other tick, also after a rejection,
\* is accepted and becomes the newest entry.
C14_StaleTickRejected ==
    /\ [](InTimestampOrder(buffer))
    /\ [][ingestCalls' # ingestCalls =>
            IF buffer # <<>> /\ lastTick'[1].timestamp < buffer[Len(buffer)].timestamp
            THEN ingestResult' = "StaleTick" /\ buffer' = buffer
            ELSE ingestResult' = "accepted" /\ buffer'[Len(buffer')] = lastTick'[1]]_vars

\* a tick was rejected and a later in-order tick has just been accepted
C14_Witness ==
    /\ ingestResult = "accepted"
    /\ \E i \in 1..(Len(pushed) - 1) :
          /\ pushed[i + 1].n > pushed[i].n + 1
          /\ pushed[i + 1].n = ingestCalls

(***************************************************************************)
(* AlertEngine and Broadcaster (design sections 3, 4.4, 4.5 and 5)         *)
(***************************************************************************)
MaxRules == 1
MaxEngineSteps == 2
QueueBound == 2
HistoryCap == 100
Subs == {1, 2}
RuleIds == 1..MaxRules
Conditions == {"zscore_above", "zscore_below", "price_above", "price_below"}

ZThreshold == 25
PriceThreshold == 2
Snapshots == {[price |-> 1, zscore |-> NullZ], [price |-> 1, zscore |-> 30],
              [price |-> 3, zscore |-> 20], [price |-> 3, zscore |-> 30]}
NoSnapshot == [price |-> 0, zscore |-> NullZ]

ThresholdOf(cond) ==
    IF cond \in {"zscore_above", "zscore_below"} THEN ZThreshold ELSE PriceThreshold

\* step 1: current_value (zscore or price, per condition)
CurrentValue(rule, snap) ==
    IF rule.condition \in {"zscore_above", "zscore_below"} THEN snap.zscore ELSE snap.price

\* step 2: the boolean condition against the threshold; a null z-score satisfies nothing
Satisfied(rule, snap) ==
    LET v == CurrentValue(rule, snap) IN
    /\ v # NullZ
    /\ CASE rule.condition = "zscore_above" -> v > rule.threshold
         [] rule.condition = "zscore_below" -> v < rule.threshold
         [] rule.condition = "price_above"  -> v > rule.threshold
         [] rule.condition = "price_below"  -> v < rule.threshold

\* level trigger: fire on every evaluation where the condition holds
FiresLevel(rule, snap, last) == rule.active /\ Satisfied(rule, snap)

\* step 3: fire only on a transition from not-satisfied to satisfied
Fires(rule, snap, last) == rule.active /\ Satisfied(rule, snap) /\ ~last[rule.id]

\* step 4: append to the bounded history, evicting the oldest if over capacity
AppendHistory(h, fired) == LastN(h \o fired, HistoryCap)

\* the set S of records as a sequence ordered by identifier
RECURSIVE SeqById(_)
SeqById(S) ==
    IF S = {} THEN <<>>
    ELSE LET r == CHOOSE x \in S : \A y \in S : x.id <= y.id
         IN  <<r>> \o SeqById(S \ {r})

RECURSIVE FiredAlerts(_, _, _, _)
FiredAlerts(view, snap, last, n) ==
    IF view = <<>> THEN <<>>
    ELSE LET r == Head(view) IN
         IF Fires(r, snap, last)
         THEN <<[alert_id |-> r.id, current_value |-> CurrentValue(r, snap), n |-> n + 1]>>
                \o FiredAlerts(Tail(view), snap, last, n + 1)
         ELSE FiredAlerts(Tail(view), snap, last, n)

SeqToSet(q) == {q[i] : i \in 1..Len(q)}
FiredIds(fired) == {a.alert_id : a \in SeqToSet(fired)}
ViewIds(view) == {r.id : r \in SeqToSet(view)}
ViewRule(view, id) == CHOOSE r \in SeqToSet(view) : r.id = id

\* delete_rule taking no lock at all
DeleteIgnoresLock == TRUE

\* deletion acquires the same mutual-exclusion scope as evaluation
DeleteMayProceed == lock = "free"

\* the snapshot is sent unless no tracked field (price, zscore, triggered alerts) changed
SnapshotSuppressed(snap, last, fired) ==
    fired = <<>> /\ snap.price = last.price /\ snap.zscore = last.zscore

AlertMessages(fired) ==
    [i \in 1..Len(fired) |-> [type |-> "alert_triggered", n |-> fired[i].n,
                               alert_id |-> fired[i].alert_id]]

PublishItems(snap, last, fired) ==
    (IF SnapshotSuppressed(snap, last, fired)
     THEN <<>>
     ELSE <<[type |-> "snapshot", n |-> 0, alert_id |-> 0]>>) \o AlertMessages(fired)

\* whether the subscriber's bounded queue takes the items
HasRoom(q, items) == Len(q) + Len(items) <= QueueBound

\* a publish that waits until every subscriber has room
PublishWaitsForRoom(subs, q, items) == \A s \in subs : HasRoom(q[s], items)

\* publish is non-blocking: it never waits for a subscriber
PublishMayProceed(subs, q, items) == TRUE

NoPublish == [valid |-> FALSE, subs |-> {}, queue |-> [s \in Subs |-> <<>>], items |-> <<>>]

EngIdle ==
    /\ rules = {} /\ nextRuleId = 1 /\ deletedIds = {}
    /\ lastSat = [i \in RuleIds |-> FALSE]
    /\ history = <<>> /\ emitted = 0
    /\ snapshot = NoSnapshot /\ lastPublished = NoSnapshot
    /\ lock = "free" /\ evalPc = "idle" /\ evalView = <<>> /\ evalFired = <<>>
    /\ streak = [i \in RuleIds |-> 0] /\ streakAlerts = [i \in RuleIds |-> 0]
    /\ subscribers = {} /\ queue = [s \in Subs |-> <<>>]
    /\ prePublish = NoPublish
    /\ engineSteps = 0

EngInit == EngIdle

engGhostReset == prePublish' = NoPublish

\* create_alert(name, symbol, condition, threshold) -> AlertRule
CreateRule(cond) ==
    /\ lock = "free" /\ nextRuleId <= MaxRules
    /\ rules' = rules \cup {[id |-> nextRuleId, condition |-> cond,
                             threshold |-> ThresholdOf(cond), active |-> TRUE]}
    /\ nextRuleId' = nextRuleId + 1
    /\ engGhostReset
    /\ UNCHANGED <<deletedIds, lastSat, history, emitted, snapshot, lastPublished, lock,
                   evalPc, evalView, evalFired, streak, streakAlerts, subscribers,
                   queue, engineSteps>>

\* delete_alert(id) -> ok
DeleteRule(id) ==
    /\ DeleteMayProceed
    /\ \E r \in rules : r.id = id
    /\ rules' = {r \in rules : r.id # id}
    /\ deletedIds' = deletedIds \cup {id}
    /\ engGhostReset
    /\ UNCHANGED <<nextRuleId, lastSat, history, emitted, snapshot, lastPublished, lock,
                   evalPc, evalView, evalFired, streak, streakAlerts, subscribers,
                   queue, engineSteps>>

\* a tick arrives: the ingestion path takes the lock and captures a consistent
\* snapshot and the rules to evaluate against it
EvalBegin(snap) ==
    /\ lock = "free" /\ evalPc = "idle" /\ engineSteps < MaxEngineSteps
    /\ lock' = "eval" /\ evalPc' = "evaluating"
    /\ snapshot' = snap
    /\ evalView' = SeqById(rules)
    /\ engineSteps' = engineSteps + 1
    /\ engGhostReset
    /\ UNCHANGED <<rules, nextRuleId, deletedIds, lastSat, history, emitted, lastPublished,
                   evalFired, streak, streakAlerts, subscribers, queue>>

\* the captured rules are evaluated; newly triggered alerts go to the history
EvalFire ==
    /\ evalPc = "evaluating"
    /\ LET fired == FiredAlerts(evalView, snapshot, lastSat, emitted)
           ids == ViewIds(evalView)
       IN  /\ evalFired' = fired
           /\ history' = AppendHistory(history, fired)
           /\ emitted' = emitted + Len(fired)
           /\ lastSat' = [i \in RuleIds |->
                            IF i \in ids THEN Satisfied(ViewRule(evalView, i), snapshot)
                            ELSE lastSat[i]]
           /\ streak' = [i \in RuleIds |->
                            IF i \in ids
                            THEN (IF Satisfied(ViewRule(evalView, i), snapshot)
                                  THEN streak[i] + 1 ELSE 0)
                            ELSE streak[i]]
           /\ streakAlerts' = [i \in RuleIds |->
                            IF i \in ids
                            THEN (IF Satisfied(ViewRule(evalView, i), snapshot)
                                  THEN streakAlerts[i]
                                         + (IF i \in FiredIds(fired) THEN 1 ELSE 0)
                                  ELSE 0)
                            ELSE streakAlerts[i]]
    /\ evalPc' = "publishing"
    /\ engGhostReset
    /\ UNCHANGED <<rules, nextRuleId, deletedIds, snapshot, lastPublished, lock, evalView,
                   subscribers, queue, engineSteps>>

\* publish(snapshot, newly_triggered_alerts): enqueue for every subscriber with
\* room, drop the subscribers without; then the lock is released
EvalPublish ==
    /\ evalPc = "publishing"
    /\ LET items == PublishItems(snapshot, lastPublished, evalFired) IN
         /\ PublishMayProceed(subscribers, queue, items)
         /\ subscribers' = {s \in subscribers : HasRoom(queue[s], items)}
         /\ queue' = [s \in Subs |->
                        IF s \in subscribers /\ HasRoom(queue[s], items)
                        THEN queue[s] \o items ELSE <<>>]
         /\ lastPublished' = IF SnapshotSuppressed(snapshot, lastPublished, evalFired)
                             THEN lastPublished ELSE snapshot
         /\ prePublish' = [valid |-> TRUE, subs |-> subscribers, queue |-> queue,
                           items |-> items]
    /\ evalPc' = "idle" /\ lock' = "free" /\ evalView' = <<>> /\ evalFired' = <<>>
    /\ UNCHANGED <<rules, nextRuleId, deletedIds, lastSat, history, emitted, snapshot,
                   streak, streakAlerts, engineSteps>>

\* a client opens the subscription channel
Subscribe(s) ==
    /\ s \notin subscribers
    /\ subscribers' = subscribers \cup {s}
    /\ queue' = [queue EXCEPT ![s] = <<>>]
    /\ engGhostReset
    /\ UNCHANGED <<rules, nextRuleId, deletedIds, lastSat, history, emitted, snapshot,
                   lastPublished, lock, evalPc, evalView, evalFired, streak, streakAlerts,
                   engineSteps>>

\* removing a subscriber: its queued items are discarded
Unsubscribe(s) ==
    /\ s \in subscribers
    /\ subscribers' = subscribers \ {s}
    /\ queue' = [queue EXCEPT ![s] = <<>>]
    /\ engGhostReset
    /\ UNCHANGED <<rules, nextRuleId, deletedIds, lastSat, history, emitted, snapshot,
                   lastPublished, lock, evalPc, evalView, evalFired, streak, streakAlerts,
                   engineSteps>>

\* the subscriber's own path sends the head of its queue over the network
SendToSubscriber(s) ==
    /\ s \in subscribers /\ queue[s] # <<>>
    /\ queue' = [queue EXCEPT ![s] = Tail(@)]
    /\ engGhostReset
    /\ UNCHANGED <<rules, nextRuleId, deletedIds, lastSat, history, emitted, snapshot,
                   lastPublished, lock, evalPc, evalView, evalFired, streak, streakAlerts,
                   subscribers, engineSteps>>

AlertNumbers(q) == [i \in 1..Len(q) |-> q[i].n]
StrictlyIncreasing(q) == \A i, j \in 1..Len(q) : i < j => q[i] < q[j]
AlertsOnly(q) == SelectSeq(q, LAMBDA m : m.type = "alert_triggered")

\* C1: a TriggeredAlert is emitted only on a snapshot where the rule's
\* condition is satisfied and was not satisfied at the rule's previous
\* evaluation: while the condition stays satisfied over consecutive snapshots
\* exactly one alert has been emitted for the rule, none while it is not
\* satisfied, and a subscriber's queue holds each emitted alert at most once.
C1_EdgeTriggered ==
    /\ \A i \in RuleIds :
         /\ streak[i] >= 1 => streakAlerts[i] = 1
         /\ streak[i] = 0 => streakAlerts[i] = 0
    /\ \A a \in SeqToSet(evalFired) : streak[a.alert_id] = 1
    /\ \A s \in Subs : StrictlyIncreasing(AlertNumbers(AlertsOnly(queue[s])))

\* a zscore_above rule whose condition stayed satisfied over two evaluations
C1_Witness ==
    \E r \in rules :
        /\ r.condition = "zscore_above"
        /\ streak[r.id] >= 2 /\ streakAlerts[r.id] = 1
        /\ \E a \in SeqToSet(history) : a.alert_id = r.id

NewAlertsFor(id, before, after) ==
    {a \in SeqToSet(after) \ SeqToSet(before) : a.alert_id = id}

\* C3: once delete_rule(id) has returned, no step emits a TriggeredAlert for
\* id, appends one to the history or enqueues one for a subscriber.
C3_NoAlertAfterDelete ==
    [][\A id \in deletedIds :
          /\ NewAlertsFor(id, history, history') = {}
          /\ NewAlertsFor(id, evalFired, evalFired') = {}
          /\ \A s \in Subs :
               NewAlertsFor(id, AlertsOnly(queue[s]), AlertsOnly(queue'[s])) = {}]_vars

\* a rule that fired was deleted, and an evaluation has run since
C3_Witness ==
    /\ evalPc = "publishing"
    /\ \E a \in SeqToSet(history) : a.alert_id \in deletedIds

\* C7: a subscriber's queue never exceeds QueueBound; publish takes its step
\* whatever the queues hold, enqueues for the subscribers with room and
\* removes the others (their queues discarded); ingestion stays enabled.
C7_PublishNeverBlocks ==
    /\ \A s \in Subs : Len(queue[s]) <= QueueBound
    /\ \A s \in Subs \ subscribers : queue[s] = <<>>
    /\ evalPc = "publishing" => ENABLED EvalPublish
    /\ (evalPc = "idle" /\ engineSteps < MaxEngineSteps)
          => ENABLED (\E snap \in Snapshots : EvalBegin(snap))
    /\ prePublish.valid =>
         \A s \in prePublish.subs :
            IF Len(prePublish.queue[s]) + Len(prePublish.items) <= QueueBound
            THEN s \in subscribers /\ queue[s] = prePublish.queue[s] \o prePublish.items
            ELSE s \notin subscribers /\ queue[s] = <<>>

\* a publish found one subscriber's queue full and dropped it, keeping another
C7_Witness ==
    /\ prePublish.valid
    /\ \E s \in prePublish.subs : s \notin subscribers
    /\ \E s \in prePublish.subs : s \in subscribers /\ queue[s] # <<>>

(***************************************************************************)
(* useAlertsManager: the alerts list (fetchAlerts, createAlert,            *)
(* deleteAlert) against the rule store of the engine                       *)
(***************************************************************************)
\* who calls fetchAlerts: the mount effect and refreshAlerts, createAlert
\* (awaited), deleteAlert's timer and deleteAlert's catch
FetchCallers == {"refresh", "create", "timer", "catch"}
HookConditions == {"zscore_above"}
KnownIds == 0..MaxRules
MaxHookCalls == 3
NoCall == [st |-> "idle", data |-> <<>>]
NoRoundTrip == [pc |-> "none", listBefore |-> <<>>, storeBefore |-> {}, id |-> -1]

\* a rule created before the client was mounted
OldRule == [id |-> 0, condition |-> "price_above", threshold |-> PriceThreshold,
            active |-> TRUE]

\* GET /api/alerts: the rules as the JSON array the client receives
ListAlerts(store) == LET q == SeqById(store) IN [i \in 1..Len(q) |-> q[i].id]

\* prev.filter(alert => alert.id !== alertId)
FilterOut(list, id) == SelectSeq(list, LAMBDA x : x # id)

\* a deleteAlert that filters the list before it knows the response
FilterBeforeResponse(prev, id, ok) == FilterOut(prev, id)

\* the local list after deleteAlert: setAlerts runs only past the
\* `if (!response.ok) throw`
AlertsAfterDelete(prev, id, ok) == IF ok THEN FilterOut(prev, id) ELSE prev

HookIdle ==
    /\ alerts = <<>> /\ loading = FALSE /\ error = "null"
    /\ fetchCalls = [c \in FetchCallers |-> NoCall]
    /\ createPc = "idle" /\ createResp = [ok |-> FALSE, id |-> -1]
    /\ deletePc = "idle" /\ deleteId = -1 /\ deleteResp = "none"
    /\ refreshTimer = FALSE /\ hookCalls = 0 /\ roundTrip = NoRoundTrip

\* after the mount effect: fetchAlerts() has been called and is in flight
HookInit ==
    /\ alerts = <<>> /\ loading = TRUE /\ error = "null"
    /\ fetchCalls = [c \in FetchCallers |->
                       IF c = "refresh" THEN [st |-> "sent", data |-> <<>>] ELSE NoCall]
    /\ createPc = "idle" /\ createResp = [ok |-> FALSE, id |-> -1]
    /\ deletePc = "idle" /\ deleteId = -1 /\ deleteResp = "none"
    /\ refreshTimer = FALSE /\ hookCalls = 0 /\ roundTrip = NoRoundTrip

\* the rule store the client starts against
StoreInit ==
    /\ rules \in {{}, {OldRule}}
    /\ nextRuleId = 1 /\ deletedIds = {}
    /\ lastSat = [i \in RuleIds |-> FALSE]
    /\ history = <<>> /\ emitted = 0
    /\ snapshot = NoSnapshot /\ lastPublished = NoSnapshot
    /\ lock = "free" /\ evalPc = "idle" /\ evalView = <<>> /\ evalFired = <<>>
    /\ streak = [i \in RuleIds |-> 0] /\ streakAlerts = [i \in RuleIds |-> 0]
    /\ subscribers = {} /\ queue = [s \in Subs |-> <<>>]
    /\ prePublish = NoPublish
    /\ engineSteps = 0

\* fetchAlerts, up to its await: setLoading(true); setError(null); fetch(...)
FetchAlertsCalled(c) ==
    /\ fetchCalls[c].st = "idle"
    /\ loading' = TRUE
    /\ error' = "null"
    /\ fetchCalls' = [fetchCalls EXCEPT ![c] = [st |-> "sent", data |-> <<>>]]

\* refreshAlerts (fetchAlerts handed to the components)
RefreshAlerts ==
    /\ hookCalls < MaxHookCalls
    /\ hookCalls' = hookCalls + 1
    /\ FetchAlertsCalled("refresh")
    /\ UNCHANGED <<alerts, createPc, createResp, deletePc, deleteId, deleteResp,
                   refreshTimer, roundTrip, engVars>>

\* the server answers GET /api/alerts: the rules of that moment, or an error
ServeListAlerts(c, ok) ==
    /\ fetchCalls[c].st = "sent"
    /\ fetchCalls' = [fetchCalls EXCEPT ![c] =
                        IF ok THEN [st |-> "ok", data |-> ListAlerts(rules)]
                        ELSE [st |-> "fail", data |-> <<>>]]
    /\ UNCHANGED <<alerts, loading, error, createPc, createResp, deletePc, deleteId,
                   deleteResp, refreshTimer, roundTrip, engVars>>
    /\ UNCHANGED hookCalls

\* how the round trip moves on when a fetchAlerts call completes
RoundTripAfterFetch(c, ok) ==
    CASE roundTrip.pc = "creating" /\ c = "create" ->
            [roundTrip EXCEPT !.pc = IF ok THEN "created" ELSE "aborted",
                              !.id = createResp.id]
      [] roundTrip.pc = "deleted" /\ c = "timer" ->
            [roundTrip EXCEPT !.pc = IF ok THEN "settled" ELSE "aborted"]
      [] roundTrip.pc \in {"created", "deleting", "deleted", "settled"} /\ ~ok ->
            [roundTrip EXCEPT !.pc = "aborted"]
      [] OTHER -> roundTrip

\* a fetchAlerts that keeps the list when the request fails
AlertsKeptOnFailure(ok, data, prev) == IF ok THEN data ELSE prev

\* setAlerts(alertsArray), or setAlerts([]) in the catch block
AlertsAfterFetch(ok, data, prev) == IF ok THEN data ELSE <<>>

\* fetchAlerts after its await: setAlerts(data), or the catch block, then finally
FetchAlertsDone(c) ==
    /\ fetchCalls[c].st \in {"ok", "fail"}
    /\ alerts' = AlertsAfterFetch(fetchCalls[c].st = "ok", fetchCalls[c].data, alerts)
    /\ IF fetchCalls[c].st = "ok" THEN UNCHANGED error ELSE error' = "fetch"
    /\ loading' = FALSE
    /\ fetchCalls' = [fetchCalls EXCEPT ![c] = NoCall]
    /\ createPc' = IF c = "create" THEN "idle" ELSE createPc
    /\ roundTrip' = RoundTripAfterFetch(c, fetchCalls[c].st = "ok")
    /\ UNCHANGED <<createResp, deletePc, deleteId, deleteResp, refreshTimer, engVars>>
    /\ UNCHANGED hookCalls

\* createAlert up to its first await: setError(null); fetch(POST)
CreateAlert ==
    /\ createPc = "idle"
    /\ hookCalls < MaxHookCalls
    /\ hookCalls' = hookCalls + 1
    /\ error' = "null"
    /\ createPc' = "posting"
    /\ roundTrip' = IF roundTrip.pc = "none" /\ alerts = ListAlerts(rules)
                    THEN [pc |-> "creating", listBefore |-> alerts,
                          storeBefore |-> rules, id |-> -1]
                    ELSE roundTrip
    /\ UNCHANGED <<alerts, loading, fetchCalls, createResp, deletePc, deleteId,
                   deleteResp, refreshTimer, engVars>>

\* the server handles POST /api/alerts: create_alert
ServeCreateOk(cond) ==
    /\ createPc = "posting"
    /\ createPc' = "responded"
    /\ createResp' = [ok |-> TRUE, id |-> nextRuleId]
    /\ CreateRule(cond)
    /\ UNCHANGED <<alerts, loading, error, fetchCalls, deletePc, deleteId, deleteResp,
                   refreshTimer, roundTrip>>
    /\ UNCHANGED hookCalls

\* the server rejects the POST, or the request fails
ServeCreateFail ==
    /\ createPc = "posting"
    /\ createPc' = "responded"
    /\ createResp' = [ok |-> FALSE, id |-> -1]
    /\ UNCHANGED <<alerts, loading, error, fetchCalls, deletePc, deleteId, deleteResp,
                   refreshTimer, roundTrip, engVars>>
    /\ UNCHANGED hookCalls

\* createAlert after the POST: await fetchAlerts(), or the catch block
CreateResponse ==
    /\ createPc = "responded"
    /\ IF createResp.ok
       THEN /\ FetchAlertsCalled("create")
            /\ createPc' = "refreshing"
            /\ UNCHANGED roundTrip
       ELSE /\ error' = "create"
            /\ createPc' = "idle"
            /\ roundTrip' = IF roundTrip.pc = "creating" THEN NoRoundTrip ELSE roundTrip
            /\ UNCHANGED <<loading, fetchCalls>>
    /\ UNCHANGED <<alerts, createResp, deletePc, deleteId, deleteResp, refreshTimer, engVars>>
    /\ UNCHANGED hookCalls

\* deleteAlert(alertId) up to its await: setError(null); fetch(DELETE)
DeleteAlert(id) ==
    /\ deletePc = "idle"
    /\ hookCalls < MaxHookCalls
    /\ hookCalls' = hookCalls + 1
    /\ error' = "null"
    /\ deletePc' = "sending"
    /\ deleteId' = id
    /\ roundTrip' = IF roundTrip.pc = "created" /\ roundTrip.id = id
                    THEN [roundTrip EXCEPT !.pc = "deleting"] ELSE roundTrip
    /\ UNCHANGED <<alerts, loading, fetchCalls, createPc, createResp, deleteResp,
                   refreshTimer, engVars>>

\* the server handles DELETE /api/alerts/{id}: delete_alert -> ok
ServeDeleteOk ==
    /\ deletePc = "sending"
    /\ DeleteRule(deleteId)
    /\ deletePc' = "responded"
    /\ deleteResp' = "ok"
    /\ UNCHANGED <<alerts, loading, error, fetchCalls, createPc, createResp, deleteId,
                   refreshTimer, roundTrip>>
    /\ UNCHANGED hookCalls

\* delete_alert -> not_found for an id that is not in the store, or a failed request
ServeDeleteFail(resp) ==
    /\ deletePc = "sending"
    /\ resp = "not_found" => ~ \E r \in rules : r.id = deleteId
    /\ deletePc' = "responded"
    /\ deleteResp' = resp
    /\ UNCHANGED <<alerts, loading, error, fetchCalls, createPc, createResp, deleteId,
                   refreshTimer, roundTrip, engVars>>
    /\ UNCHANGED hookCalls

\* deleteAlert after the DELETE: filter and setTimeout(fetchAlerts, 100), or
\* the catch block: setError('Failed to delete alert: ...'); fetchAlerts();
\* throw. fetchAlerts runs up to its await inside the catch block, so its
\* setError(null) is the last write to error of this step
DeleteResponse ==
    /\ deletePc = "responded"
    /\ deletePc' = "idle"
    /\ IF deleteResp = "ok"
       THEN /\ refreshTimer = FALSE
            /\ alerts' = AlertsAfterDelete(alerts, deleteId, TRUE)
            /\ refreshTimer' = TRUE
            /\ roundTrip' = IF roundTrip.pc = "deleting" /\ roundTrip.id = deleteId
                            THEN [roundTrip EXCEPT !.pc = "deleted"] ELSE roundTrip
            /\ UNCHANGED <<loading, error, fetchCalls>>
       ELSE /\ FetchAlertsCalled("catch")
            /\ roundTrip' = IF roundTrip.pc = "deleting" /\ roundTrip.id = deleteId
                            THEN [roundTrip EXCEPT !.pc = "aborted"] ELSE roundTrip
            /\ alerts' = AlertsAfterDelete(alerts, deleteId, FALSE)
            /\ UNCHANGED refreshTimer
    /\ UNCHANGED <<createPc, createResp, deleteId, deleteResp, engVars>>
    /\ UNCHANGED hookCalls

C27_DeleteErrorSurvivesRefresh ==
    [][(fetchCalls["catch"].st \in {"ok", "fail"} /\ fetchCalls'["catch"] = NoCall)
         => error' = "delete"]_vars

\* C28: once deleteAlert(id) has succeeded, id is absent from the hook's
\* alerts list in every later state, whatever the order in which the
\* responses of outstanding fetchAlerts requests arrive.
C28_DeletedStaysAbsent ==
    (deletePc = "idle" /\ deleteResp = "ok") => \A k \in 1..Len(alerts) : alerts[k] # deleteId

\* the timer deleteAlert set fires: fetchAlerts()
RefreshTimerFires ==
    /\ refreshTimer
    /\ refreshTimer' = FALSE
    /\ FetchAlertsCalled("timer")
    /\ UNCHANGED <<alerts, createPc, createResp, deletePc, deleteId, deleteResp,
                   roundTrip, engVars>>
    /\ UNCHANGED hookCalls

\* C4: round trip. Once a created rule has been deleted again the store holds
\* exactly the rules it held before (the deleted id absent, every other rule
\* unchanged), and once createAlert and deleteAlert have both succeeded and
\* their follow-up refreshes have completed (successfully, the list having
\* been in step with the store before the creation, no fetch failing since),
\* the hook's alerts list equals the list before the creation.
C4_RoundTrip ==
    /\ (roundTrip.pc \in {"deleted", "settled"} /\ deletedIds = {roundTrip.id})
          => rules = roundTrip.storeBefore
    /\ (roundTrip.pc = "settled" /\ rules = roundTrip.storeBefore)
          => alerts = roundTrip.listBefore

(***************************************************************************)
(* useAlertsManager: the triggered-alert list (WebSocket messages,         *)
(* fetchTriggeredAlerts every 15 s) against the engine's history           *)
(***************************************************************************)
TrigKeep == 99
TrigCap == TrigKeep + 1
MaxTrigEmits == 3
HookSub == 1
TrigSnapshots == {[price |-> 1, zscore |-> NullZ], [price |-> 3, zscore |-> 30]}
PollResponses == {"ok", "not_ready", "error"}

Reverse(q) == [i \in 1..Len(q) |-> q[Len(q) + 1 - i]]

\* a TriggeredAlert as the client stores it
ClientAlert(a) == [n |-> a.n, alert_id |-> a.alert_id]

\* the history as Init finds it after k alerts
HistoryOf(k) == LastN([i \in 1..k |-> [alert_id |-> 1, current_value |-> 30, n |-> i]],
                      HistoryCap)

\* list_triggered: the recent triggered alerts, newest first
ListTriggered(h) == LET r == Reverse(h) IN [i \in 1..Len(r) |-> ClientAlert(r[i])]

\* a push that keeps every earlier entry
PushUncapped(alert, prev) == <<alert>> \o prev

\* setTriggeredAlerts(prev => [data.alert, ...prev.slice(0, 99)])
PushTriggered(alert, prev) == <<alert>> \o SubSeq(prev, 1, Min(Len(prev), TrigKeep))

\* what the push leaves out of prev
Discarded(prev, next) == IF Len(prev) + 1 > Len(next) THEN <<prev[Len(prev)]>> ELSE <<>>

TrigNumbers(list) == {list[i].n : i \in 1..Len(list)}

TrigIdle ==
    /\ triggeredAlerts = <<>> /\ hookWs = "closed"
    /\ pollPc = "idle" /\ pollData = <<>>
    /\ trigDiscarded = <<>> /\ owed = {} /\ trigEmits = 0 /\ pollLast = "none"

\* right after the mount effects (socket connecting, first fetch in flight),
\* or after a long run in which k alerts were received
TrigInit ==
    /\ trigDiscarded = <<>> /\ owed = {} /\ trigEmits = 0 /\ pollData = <<>>
    /\ pollLast = "none"
    /\ rules = {} /\ nextRuleId = 1 /\ deletedIds = {}
    /\ lastSat = [i \in RuleIds |-> FALSE]
    /\ snapshot = NoSnapshot /\ lastPublished = NoSnapshot
    /\ lock = "free" /\ evalPc = "idle" /\ evalView = <<>> /\ evalFired = <<>>
    /\ streak = [i \in RuleIds |-> 0] /\ streakAlerts = [i \in RuleIds |-> 0]
    /\ queue = [s \in Subs |-> <<>>]
    /\ prePublish = NoPublish /\ engineSteps = 0
    /\ \/ /\ emitted = 0 /\ history = <<>>
          /\ triggeredAlerts = <<>>
          /\ hookWs = "connecting" /\ subscribers = {}
          /\ pollPc = "sent"
       \/ /\ emitted = HistoryCap - 2 /\ history = HistoryOf(HistoryCap - 2)
          /\ triggeredAlerts = ListTriggered(history)
          /\ hookWs = "open" /\ subscribers = {HookSub}
          /\ pollPc = "idle"

trigServerRest == <<rules, nextRuleId, deletedIds, lastSat, snapshot, lock, evalPc,
                    evalView, evalFired, streak, streakAlerts, prePublish, engineSteps>>

\* the server accepts the hook's WebSocket
HookWsOpens ==
    /\ hookWs = "connecting"
    /\ hookWs' = "open"
    /\ Subscribe(HookSub)
    /\ UNCHANGED <<triggeredAlerts, pollPc, pollData, trigDiscarded, owed, trigEmits,
                   pollLast>>

\* one evaluation on the server: the history takes the alert it triggered (if
\* any) and publish enqueues for the subscribers, dropping those without room
ServerPublish(snap, fire) ==
    /\ fire => trigEmits < MaxTrigEmits
    /\ LET fired == IF fire
                    THEN <<[alert_id |-> 1, current_value |-> 30, n |-> emitted + 1]>>
                    ELSE <<>>
           items == PublishItems(snap, lastPublished, fired)
       IN  /\ history' = AppendHistory(history, fired)
           /\ emitted' = emitted + Len(fired)
           /\ trigEmits' = trigEmits + Len(fired)
           /\ subscribers' = {s \in subscribers : HasRoom(queue[s], items)}
           /\ queue' = [s \in Subs |->
                          IF s \in subscribers /\ HasRoom(queue[s], items)
                          THEN queue[s] \o items ELSE <<>>]
           /\ lastPublished' = IF SnapshotSuppressed(snap, lastPublished, fired)
                               THEN lastPublished ELSE snap
           /\ hookWs' = IF HookSub \in subscribers /\ ~HasRoom(queue[HookSub], items)
                        THEN "closed" ELSE hookWs
           /\ owed' = IF fire /\ HookSub \in subscribers
                      THEN owed \cup {emitted + 1} ELSE owed
    /\ UNCHANGED trigServerRest
    /\ UNCHANGED <<triggeredAlerts, pollPc, pollData, trigDiscarded, pollLast>>

\* ws.onmessage of the hook: only alert_triggered messages touch the list
HookOnMessage ==
    /\ hookWs = "open"
    /\ SendToSubscriber(HookSub)
    /\ LET data == Head(queue[HookSub]) IN
         IF data.type = "alert_triggered"
         THEN LET next == PushTriggered(ClientAlert(data), triggeredAlerts) IN
                /\ triggeredAlerts' = next
                /\ trigDiscarded' = Discarded(triggeredAlerts, next)
         ELSE /\ UNCHANGED triggeredAlerts
              /\ trigDiscarded' = <<>>
    /\ UNCHANGED <<hookWs, pollPc, pollData, owed, trigEmits, pollLast>>

\* setInterval(fetchTriggeredAlerts, 15000): fetchTriggeredAlerts up to its await
PollTimerFires ==
    /\ pollPc = "idle"
    /\ pollPc' = "sent"
    /\ trigDiscarded' = <<>>
    /\ UNCHANGED <<triggeredAlerts, hookWs, pollData, owed, trigEmits, pollLast, engVars>>

\* the server answers GET /api/alerts/triggered, or the request fails
ServeTriggered(resp) ==
    /\ pollPc = "sent"
    /\ pollPc' = resp
    /\ pollData' = IF resp = "ok" THEN ListTriggered(history) ELSE <<>>
    /\ trigDiscarded' = <<>>
    /\ UNCHANGED <<triggeredAlerts, hookWs, owed, trigEmits, pollLast, engVars>>

\* a fetchTriggeredAlerts that never touches the list
PollIgnored(pc, data, prev) == prev

\* setTriggeredAlerts(triggeredArray) on success; the list is left alone on
\* 404/500 and on any other failure
PollApplied(pc, data, prev) == IF pc = "ok" THEN data ELSE prev

\* fetchTriggeredAlerts after its await
PollResponse ==
    /\ pollPc \in PollResponses
    /\ triggeredAlerts' = PollApplied(pollPc, pollData, triggeredAlerts)
    /\ pollPc' = "idle" /\ pollData' = <<>>
    /\ pollLast' = pollPc
    /\ trigDiscarded' = <<>>
    /\ UNCHANGED <<hookWs, owed, trigEmits, engVars>>

FetchInit ==
    /\ alerts \in {<<>>, ListAlerts({OldRule})}
    /\ loading = TRUE /\ error = "null"
    /\ fetchCalls = [c \in FetchCallers |->
                       IF c = "refresh" THEN [st |-> "sent", data |-> <<>>] ELSE NoCall]
    /\ createPc = "idle" /\ createResp = [ok |-> FALSE, id |-> -1]
    /\ deletePc = "idle" /\ deleteId = -1 /\ deleteResp = "none"
    /\ refreshTimer = FALSE /\ hookCalls = 0 /\ roundTrip = NoRoundTrip
    /\ rules \in {{}, {OldRule}}
    /\ nextRuleId = 1 /\ deletedIds = {}
    /\ lastSat = [i \in RuleIds |-> FALSE]
    /\ \E k \in {0, 2} : emitted = k /\ history = HistoryOf(k)
    /\ snapshot = NoSnapshot /\ lastPublished = NoSnapshot
    /\ lock = "free" /\ evalPc = "idle" /\ evalView = <<>> /\ evalFired = <<>>
    /\ streak = [i \in RuleIds |-> 0] /\ streakAlerts = [i \in RuleIds |-> 0]
    /\ subscribers = {} /\ queue = [s \in Subs |-> <<>>]
    /\ prePublish = NoPublish /\ engineSteps = 0
    /\ \E k \in 0..emitted : triggeredAlerts = ListTriggered(HistoryOf(k))
    /\ hookWs = "closed" /\ pollPc = "sent" /\ pollData = <<>>
    /\ trigDiscarded = <<>> /\ owed = {} /\ trigEmits = 0 /\ pollLast = "none"

\* C22: a fetch of triggered alerts that fails (404 or 500, another status
\* or a network error) leaves triggeredAlerts exactly as it was, whereas a
\* fetchAlerts that fails empties the alerts list and records the error.
C22_FailedFetches ==
    [][/\ (pollPc \in {"not_ready", "error"} /\ pollPc' = "idle")
          => triggeredAlerts' = triggeredAlerts
       /\ \A c \in FetchCallers :
            (fetchCalls[c].st = "fail" /\ fetchCalls'[c] = NoCall)
            => alerts' = <<>> /\ error' # "null"]_vars

\* both fetches have failed: the rule the list held is gone from it, the
\* triggered alerts are still there
C22_Witness ==
    /\ pollLast \in {"not_ready", "error"} /\ pollPc = "idle"
    /\ triggeredAlerts = ListTriggered(HistoryOf(1))
    /\ rules = {OldRule} /\ alerts = <<>> /\ error = "fetch"
    /\ hookCalls = 0

MaxDismissals == 2
NotifIdle == dismissLog = <<>>

\* alert.id: undefined (<<>>) for an entry without an id field
AlertId(a) == IF "id" \in DOMAIN a THEN <<a.id>> ELSE <<>>

\* prev.filter(alert => alert.id !== alertId)
FilterById(prev, alertId) == SelectSeq(prev, LAMBDA a : AlertId(a) # alertId)

\* the list without its k-th entry
RemoveAt(list, k) == SubSeq(list, 1, k - 1) \o SubSeq(list, k + 1, Len(list))

\* the X button of the k-th NotificationCard: onDismiss(alert.id), which
\* handleDismissNotification hands to dismissTriggeredAlert
DismissTriggeredAlert(k) ==
    /\ Len(dismissLog) < MaxDismissals
    /\ k \in 1..Len(triggeredAlerts)
    /\ triggeredAlerts' = FilterById(triggeredAlerts, AlertId(triggeredAlerts[k]))
    /\ dismissLog' = Append(dismissLog, [pos |-> k, ns |-> {triggeredAlerts[k].n}])
    /\ trigDiscarded' = <<>>
    /\ UNCHANGED <<hookWs, pollPc, pollData, owed, trigEmits, pollLast, engVars>>

RECURSIVE DismissEach(_, _)
\* triggeredAlerts.forEach(alert => onDismiss(alert.id)): the updaters run in
\* order on the list
DismissEach(list, ids) ==
    IF ids = <<>> THEN list ELSE DismissEach(FilterById(list, Head(ids)), Tail(ids))

\* the Clear All button
ClearAll ==
    /\ Len(dismissLog) < MaxDismissals
    /\ triggeredAlerts # <<>>
    /\ triggeredAlerts' =
          DismissEach(triggeredAlerts,
                      [i \in 1..Len(triggeredAlerts) |-> AlertId(triggeredAlerts[i])])
    /\ dismissLog' = Append(dismissLog, [pos |-> 0, ns |-> TrigNumbers(triggeredAlerts)])
    /\ trigDiscarded' = <<>>
    /\ UNCHANGED <<hookWs, pollPc, pollData, owed, trigEmits, pollLast, engVars>>

\* C25: dismissing one notification removes exactly that one entry from the
\* triggered-alert list and leaves every other entry in place, including
\* other triggers of the same rule and entries that carry alert_id but no id.
C25_DismissRemovesOne ==
    [][(Len(dismissLog') = Len(dismissLog) + 1 /\ dismissLog'[Len(dismissLog')].pos # 0)
         => triggeredAlerts' = RemoveAt(triggeredAlerts, dismissLog'[Len(dismissLog')].pos)]_vars

\* the numbers of the alerts dismissed or cleared so far
DismissedNumbers == UNION {dismissLog[i].ns : i \in 1..Len(dismissLog)}

\* C26: once a notification has been dismissed (or the triggered history
\* cleared) it never reappears in the client's triggered-alert list, in
\* particular not through the periodic refetch of triggered alerts.
C26_DismissedStaysGone == DismissedNumbers \cap TrigNumbers(triggeredAlerts) = {}

\* the alerts emitted while the hook was subscribed that its list lacks
Missing == owed \ TrigNumbers(triggeredAlerts)

MAX_HISTORY_POINTS == 100
MaxSockets == 3
MaxDashMessages == 2
MaxEffectRuns == 3
DashSymbols == {"A", "B"}
NoSelection == <<"", "">>

\* an absent field (undefined) is <<>>, a present one is <<value>>
SnapshotMessage(p, z, sp, co, ts) ==
    [type |-> "snapshot", price |-> <<p>>, zscore |-> <<z>>, spread |-> <<sp>>,
     correlation |-> <<co>>, timestamp |-> <<ts>>, alert |-> <<>>]
AlertTriggeredMessage ==
    [type |-> "alert_triggered", price |-> <<>>, zscore |-> <<>>, spread |-> <<>>,
     correlation |-> <<>>, timestamp |-> <<>>, alert |-> <<[n |-> 1, alert_id |-> 1]>>]
DashMessages ==
    { SnapshotMessage(2, [s \in DashSymbols |-> IF s = "A" THEN NullZ ELSE 30],
                      [k \in {<<"A", "B">>} |-> 5], [k \in {<<"A", "B">>} |-> 50], 1500),
      SnapshotMessage(2, [s \in DashSymbols |-> IF s = "A" THEN NullZ ELSE 30],
                      [k \in {<<"A", "B">>} |-> 5], [k \in {<<"A", "B">>} |-> 90], 1900),
      AlertTriggeredMessage }

\* the key `${selectedSymbol1}_${selectedSymbol2}`, as the pair of its parts
PairKey(s1, s2) == <<s1, s2>>

\* getPairKey(): null (<<>>) unless both symbols are selected
GetPairKey(s1, s2) == IF s1 # "" /\ s2 # "" THEN PairKey(s1, s2) ELSE <<>>

\* data.field?.[key] !== undefined
HasKey(field, key) == field # <<>> /\ key \in DOMAIN field[1]

\* new Date(timestamp).toLocaleTimeString(): the time of day, to the second
ToLocaleTimeString(ts) == (ts \div 1000) % 86400

\* the setAnalytics updater of updateAnalytics
UpdateAnalytics(prev, newAnalytics) ==
    IF prev = <<>> THEN <<newAnalytics>>
    ELSE LET priceChanged  == prev[1].price # newAnalytics.price
             zscoreChanged == prev[1].zscore # newAnalytics.zscore
             spreadChanged == prev[1].spread # newAnalytics.spread
         IN  IF priceChanged \/ zscoreChanged \/ spreadChanged
             THEN <<newAnalytics>> ELSE prev

\* an updater that keeps the first N points instead of the last N
AppendKeepOldest(prev, timestamp, value) ==
    IF prev # <<>> /\ prev[Len(prev)].timestamp = timestamp THEN prev
    ELSE SubSeq(prev \o <<[timestamp |-> timestamp, value |-> value]>>, 1,
                Min(Len(prev) + 1, MAX_HISTORY_POINTS))

\* the updater of setZscoreHistory / setSpreadHistory
AppendPoint(prev, timestamp, value) ==
    IF prev # <<>> /\ prev[Len(prev)].timestamp = timestamp THEN prev
    ELSE LastN(prev \o <<[timestamp |-> timestamp, value |-> value]>>, MAX_HISTORY_POINTS)

NoMessage == [type |-> "none", data |-> <<>>, before |-> <<>>, sel |-> NoSelection]
NoPoints == [z |-> <<>>, s |-> <<>>]

\* the selections of the points after the updater ran for one of selection tag
TagsAfter(tags, prev, timestamp, tag) ==
    IF prev # <<>> /\ prev[Len(prev)].timestamp = timestamp THEN tags
    ELSE LastN(tags \o <<tag>>, MAX_HISTORY_POINTS)

DashIdle ==
    /\ dashMounted = FALSE /\ selected = NoSelection /\ effectGen = 0
    /\ analytics = <<>> /\ wsConnected = FALSE
    /\ zscoreHistory = <<>> /\ spreadHistory = <<>>
    /\ sockets = <<>> /\ wsRef = 0 /\ reconnectRef = 0 /\ timers = {}
    /\ dashHandled = NoMessage /\ dashMsgs = 0
    /\ historyFor = NoPoints

\* a history of MAX_HISTORY_POINTS points, one per second, the last at 23:58:20
FullHistory(value) ==
    [k \in 1..MAX_HISTORY_POINTS |->
        [timestamp |-> 86300 - MAX_HISTORY_POINTS + k, value |-> value]]

\* the snapshot whose points end the full histories
LastSnapshot ==
    SnapshotMessage(1, [s \in DashSymbols |-> 30], [k \in {<<"A", "B">>} |-> 5],
                    [k \in {<<"A", "B">>} |-> 50], 86300000)

\* after the first render: the effect has run connect() with no symbol
\* selected; or a dashboard that has been running for a while: the first
\* socket failed, the symbols were loaded, the second socket is open and has
\* delivered MAX_HISTORY_POINTS snapshots
DashInit ==
    \/ /\ dashMounted = TRUE /\ selected = NoSelection /\ effectGen = 1
       /\ analytics = <<>> /\ wsConnected = FALSE
       /\ zscoreHistory = <<>> /\ spreadHistory = <<>>
       /\ sockets = <<[st |-> "connecting", sel |-> NoSelection, gen |-> 1]>>
       /\ wsRef = 1 /\ reconnectRef = 0 /\ timers = {}
       /\ dashHandled = NoMessage /\ dashMsgs = 0
       /\ historyFor = NoPoints
    \/ /\ dashMounted = TRUE /\ selected = <<"A", "B">> /\ effectGen = 2
       /\ analytics = <<LastSnapshot>> /\ wsConnected = TRUE
       /\ zscoreHistory = FullHistory(30) /\ spreadHistory = FullHistory(5)
       /\ sockets = <<[st |-> "closed", sel |-> NoSelection, gen |-> 1],
                      [st |-> "open", sel |-> <<"A", "B">>, gen |-> 2]>>
       /\ wsRef = 2 /\ reconnectRef = 1 /\ timers = {}
       /\ dashHandled = NoMessage /\ dashMsgs = 0
       /\ historyFor = [z |-> [k \in 1..MAX_HISTORY_POINTS |-> "A"],
                        s |-> [k \in 1..MAX_HISTORY_POINTS |-> <<"A", "B">>]]

\* ws.close(): an open or connecting socket starts closing
CloseSocket(socks, i) ==
    IF i # 0 /\ socks[i].st \in {"connecting", "open"}
    THEN [socks EXCEPT ![i].st = "closing"] ELSE socks

\* the cleanup of the effect: clearTimeout(reconnectTimeoutRef.current) and
\* wsRef.current.close()
CleanupTimers == timers \ {reconnectRef}
CleanupSockets == CloseSocket(sockets, wsRef)

\* connect(): new WebSocket(...); wsRef.current = ws, in the closure of the
\* effect run gen with the symbols sel
Connected(socks, sel, gen) == Append(socks, [st |-> "connecting", sel |-> sel, gen |-> gen])

\* selectedSymbol1/2 change: the effect is cleaned up and runs again
SelectSymbols(sel, zh, sh, hf) ==
    /\ dashMounted /\ sel # selected
    /\ effectGen < MaxEffectRuns /\ Len(sockets) < MaxSockets
    /\ selected' = sel
    /\ zscoreHistory' = zh /\ spreadHistory' = sh /\ historyFor' = hf
    /\ effectGen' = effectGen + 1
    /\ timers' = CleanupTimers
    /\ sockets' = Connected(CleanupSockets, sel, effectGen + 1)
    /\ wsRef' = Len(sockets) + 1
    /\ dashHandled' = NoMessage
    /\ UNCHANGED <<dashMounted, analytics, wsConnected, reconnectRef, dashMsgs>>

\* fetchSymbols: the first two symbols are selected when none is
SymbolsLoaded ==
    /\ selected = NoSelection
    /\ SelectSymbols(<<"A", "B">>, zscoreHistory, spreadHistory, historyFor)

\* the Symbol 1 select: setSelectedSymbol1(value); setZscoreHistory([])
ChangeSymbol1(s) ==
    SelectSymbols(<<s, selected[2]>>, <<>>, spreadHistory, [historyFor EXCEPT !.z = <<>>])

\* the Symbol 2 select: setSelectedSymbol2(value); setSpreadHistory([])
ChangeSymbol2(s) ==
    SelectSymbols(<<selected[1], s>>, zscoreHistory, <<>>, [historyFor EXCEPT !.s = <<>>])

\* the component unmounts: the cleanup of the effect runs
Unmount ==
    /\ dashMounted
    /\ dashMounted' = FALSE
    /\ timers' = CleanupTimers
    /\ sockets' = CleanupSockets
    /\ dashHandled' = NoMessage
    /\ UNCHANGED <<selected, effectGen, analytics, wsConnected, zscoreHistory,
                   spreadHistory, wsRef, reconnectRef, dashMsgs, historyFor>>

\* ws.onopen
SocketOpens(i) ==
    /\ sockets[i].st = "connecting"
    /\ sockets' = [sockets EXCEPT ![i].st = "open"]
    /\ wsConnected' = IF dashMounted THEN TRUE ELSE wsConnected
    /\ dashHandled' = NoMessage
    /\ UNCHANGED <<dashMounted, selected, effectGen, analytics, zscoreHistory,
                   spreadHistory, wsRef, reconnectRef, timers, dashMsgs, historyFor>>

\* ws.onmessage, in the closure of the socket: updateAnalytics(data), then
\* the z-score and spread histories of the closure's symbols
DashOnMessage(i, data) ==
    /\ sockets[i].st = "open"
    /\ dashMsgs < MaxDashMessages
    /\ dashMsgs' = dashMsgs + 1
    /\ dashHandled' = [type |-> data.type, data |-> <<data>>, before |-> analytics,
                        sel |-> sockets[i].sel]
    /\ LET sel == sockets[i].sel IN
         IF dashMounted
         THEN /\ analytics' = UpdateAnalytics(analytics, data)
              /\ zscoreHistory' =
                   IF sel[1] # "" /\ HasKey(data.zscore, sel[1])
                   THEN AppendPoint(zscoreHistory, ToLocaleTimeString(data.timestamp[1]),
                                    data.zscore[1][sel[1]])
                   ELSE zscoreHistory
              /\ spreadHistory' =
                   IF sel[1] # "" /\ sel[2] # "" /\ HasKey(data.spread, PairKey(sel[1], sel[2]))
                   THEN AppendPoint(spreadHistory, ToLocaleTimeString(data.timestamp[1]),
                                    data.spread[1][PairKey(sel[1], sel[2])])
                   ELSE spreadHistory
              /\ historyFor' =
                   [z |-> IF sel[1] # "" /\ HasKey(data.zscore, sel[1])
                          THEN TagsAfter(historyFor.z, zscoreHistory,
                                         ToLocaleTimeString(data.timestamp[1]), sel[1])
                          ELSE historyFor.z,
                    s |-> IF sel[1] # "" /\ sel[2] # ""
                             /\ HasKey(data.spread, PairKey(sel[1], sel[2]))
                          THEN TagsAfter(historyFor.s, spreadHistory,
                                         ToLocaleTimeString(data.timestamp[1]), sel)
                          ELSE historyFor.s]
         ELSE UNCHANGED <<analytics, zscoreHistory, spreadHistory, historyFor>>
    /\ UNCHANGED <<dashMounted, selected, effectGen, wsConnected, sockets, wsRef,
                   reconnectRef, timers>>

\* ws.onclose: setWsConnected(false) and
\* reconnectTimeoutRef.current = setTimeout(connect, 5000)
OnClose(i) ==
    /\ sockets' = [sockets EXCEPT ![i].st = "closed"]
    /\ wsConnected' = IF dashMounted THEN FALSE ELSE wsConnected
    /\ timers' = timers \cup {i}
    /\ reconnectRef' = i
    /\ dashHandled' = NoMessage
    /\ UNCHANGED <<dashMounted, selected, effectGen, analytics, zscoreHistory,
                   spreadHistory, wsRef, dashMsgs, historyFor>>

\* the connection is lost or refused
SocketFails(i) == sockets[i].st \in {"connecting", "open"} /\ OnClose(i)

\* the close started by ws.close() completes
SocketClosed(i) == sockets[i].st = "closing" /\ OnClose(i)

\* the reconnect timer of socket i fires: connect() of the same closure
ReconnectTimerFires(i) ==
    /\ i \in timers
    /\ Len(sockets) < MaxSockets
    /\ timers' = timers \ {i}
    /\ sockets' = Connected(sockets, sockets[i].sel, sockets[i].gen)
    /\ wsRef' = Len(sockets) + 1
    /\ dashHandled' = NoMessage
    /\ UNCHANGED <<dashMounted, selected, effectGen, analytics, wsConnected,
                   zscoreHistory, spreadHistory, reconnectRef, dashMsgs, historyFor>>

\* C6: messages are handled by type: an alert_triggered message never
\* replaces or alters the analytics snapshot the dashboard has stored.
C6_AlertLeavesAnalytics ==
    (/\ dashHandled.type = "alert_triggered"
     /\ dashHandled.before # <<>>
     /\ dashHandled.before[1].type = "snapshot")
    => analytics = dashHandled.before

\* one of the tracked fields price, zscore, spread, correlation differs
TrackedChanged(old, new) ==
    \/ old.price # new.price \/ old.zscore # new.zscore
    \/ old.spread # new.spread \/ old.correlation # new.correlation

\* C13: a snapshot is suppressed (the stored snapshot is kept) only when none
\* of the tracked fields price, zscore, spread and correlation changed since
\* the stored snapshot; a snapshot that differs in one of them replaces it.
C13_SuppressedOnlyWhenUnchanged ==
    (/\ dashMounted
     /\ dashHandled.type = "snapshot"
     /\ dashHandled.before # <<>>
     /\ dashHandled.before[1].type = "snapshot")
    => analytics = IF TrackedChanged(dashHandled.before[1], dashHandled.data[1])
                   THEN dashHandled.data ELSE dashHandled.before

\* C12: the pair key is symmetric: the key used for the selected symbols
\* (A, B) equals the key used for (B, A), so either order of selection reads
\* the same entries of a snapshot.
C12_PairKeySymmetric ==
    GetPairKey(selected[1], selected[2]) = GetPairKey(selected[2], selected[1])

\* the effect run a socket belongs to is still the current one
LiveSocket(i) == dashMounted /\ sockets[i].gen = effectGen

\* C9: removing a subscriber is safe and immediate: after the cleanup of the
\* WebSocket effect (unmount or symbol change) no connection is connecting or
\* open on behalf of the removed subscription, whether by a reconnect timer
\* scheduled before or after the removal, so it receives no further snapshots.
C9_NoConnectionAfterCleanup ==
    \A i \in 1..Len(sockets) : sockets[i].st \in {"connecting", "open"} => LiveSocket(i)

\* the Z-Score summary card: hidden unless analytics.zscore[selectedSymbol1]
\* !== undefined; then analytics.zscore[selectedSymbol1].toFixed(3), which
\* throws a TypeError on null
ZScoreCard ==
    IF selected[1] # "" /\ analytics # <<>> /\ HasKey(analytics[1].zscore, selected[1])
    THEN IF analytics[1].zscore[1][selected[1]] = NullZ THEN "TypeError" ELSE "number"
    ELSE "hidden"

\* C21: the dashboard stores a z-score history point, and formats the z-score
\* card, only for a z-score that is a defined number: no history point holds
\* a null z-score and the card never formats null as a number.
C21_NullZScoreNeverShown ==
    /\ \A k \in 1..Len(zscoreHistory) : zscoreHistory[k].value # NullZ
    /\ ZScoreCard # "TypeError"

\* the sockets whose onmessage would update the component's state
OpenSockets == {i \in 1..Len(sockets) : sockets[i].st = "open"}

\* C24: at any time a mounted dashboard has at most one open analytics
\* WebSocket whose message handler updates its state, under every
\* interleaving of symbol changes (cleanup and re-run of the effect), socket
\* close events and reconnect timers.
C24_AtMostOneOpenSocket == dashMounted => Cardinality(OpenSockets) <= 1

\* C29: every point in spreadHistory was computed for the currently selected
\* (symbol 1, symbol 2) pair and every point in zscoreHistory for the
\* currently selected symbol 1: after either selection changes, no point of
\* the previous pair or symbol remains in, or is later added to, the history.
C29_HistoriesOfSelection ==
    /\ Len(historyFor.z) = Len(zscoreHistory) /\ Len(historyFor.s) = Len(spreadHistory)
    /\ \A k \in 1..Len(historyFor.z) : historyFor.z[k] = selected[1]
    /\ \A k \in 1..Len(historyFor.s) : historyFor.s[k] = selected

\* C19: zscoreHistory and spreadHistory never hold more than
\* MAX_HISTORY_POINTS (100) points; a snapshot message that carries a value
\* for the selected symbol (pair) appends one point at the end, dropping the
\* oldest point at capacity and keeping the others in their order, unless its
\* formatted timestamp equals that of the last stored point: then, as for a
\* message without such a value, nothing is appended.
C19_HistoriesBounded ==
    /\ [](Len(zscoreHistory) <= 100 /\ Len(spreadHistory) <= 100)
    /\ [][(dashMsgs' # dashMsgs /\ dashHandled'.type = "snapshot" /\ dashMounted) =>
            LET data == dashHandled'.data[1]
                sel == dashHandled'.sel
                t == ToLocaleTimeString(data.timestamp[1])
                Appended(h, h2) ==
                    /\ Len(h2) = Min(Len(h) + 1, 100)
                    /\ h2[Len(h2)].timestamp = t
                    /\ \A k \in 1..(Len(h2) - 1) : h2[k] = h[k + Len(h) + 1 - Len(h2)]
                Step(h, h2, carries) ==
                    IF carries /\ ~(h # <<>> /\ h[Len(h)].timestamp = t)
                    THEN Appended(h, h2) ELSE h2 = h
            IN  /\ Step(zscoreHistory, zscoreHistory',
                        sel[1] # "" /\ HasKey(data.zscore, sel[1]))
                /\ Step(spreadHistory, spreadHistory',
                        sel[1] # "" /\ sel[2] # "" /\ HasKey(data.spread, <<sel[1], sel[2]>>))]_vars

\* a point was appended at capacity, and the next message, of the same
\* second, appended nothing to the z-score history
C19_Witness ==
    /\ dashMsgs = 2 /\ dashHandled.type = "snapshot"
    /\ dashHandled.data[1].timestamp = <<1900>>
    /\ dashHandled.before # <<>> /\ dashHandled.before[1].timestamp = <<1500>>
    /\ Len(zscoreHistory) = 100 /\ Len(spreadHistory) = 100
    /\ zscoreHistory[1] = FullHistory(30)[2]
    /\ zscoreHistory[100] = [timestamp |-> 1, value |-> NullZ]
    /\ spreadHistory[1] = FullHistory(5)[2]
    /\ spreadHistory[100] = [timestamp |-> 1, value |-> 5]

\* C18: auto-reconnection: whenever the analytics WebSocket of a mounted
\* component is closed (after a close, an error or a failed open), a new
\* connection attempt is eventually made, for the alerts hook's socket and
\* for the dashboard's socket of the current effect run.
C18_AutoReconnect ==
    /\ (hookWs = "closed") ~> (hookWs \in {"connecting", "open"})
    /\ \A i \in 1..MaxSockets :
          (i <= Len(sockets) /\ LiveSocket(i) /\ sockets[i].st = "closed")
              ~> (~dashMounted \/ Len(sockets) > i)

(***************************************************************************)
(* Specifications                                                          *)
(***************************************************************************)
(***************************************************************************)
(* Pair detail query: get_pair_detail (design sections 4.3, 6, 7) and      *)
(* TradingDashboard.runADFTest                                             *)
(***************************************************************************)
MaxPairTicks == 2
MaxAdfRuns == 2
AlignedCounts == {0, 9, 10, 40, 199, 200}
QuerySymbols == {"", "A", "B", "X"}

\* aligned points each sub-result of the pair analysis needs
Required ==
    [ price |-> 1, volume |-> 10, zscore |-> 20, volatility |-> 50,
      correlation |-> 100, spread |-> 100, hedge_ratio |-> 150, adf_test |-> 200 ]

Unlocked(n) == {f \in DOMAIN Required : Required[f] <= n}

NoResponse == [kind |-> "none", status |-> 0]

\* get_pair_detail(symbol_a, symbol_b) with n aligned points; st is the HTTP
\* status the insufficient_data result travels with
GetPairDetail(a, b, n, st) ==
    IF ~({a, b} \subseteq Symbols)
    THEN [kind |-> "symbol_not_found", status |-> 404]
    ELSE IF n < Required.adf_test
    THEN [kind |-> "insufficient_data", status |-> st,
          required |-> Required.adf_test, current |-> n,
          present |-> Unlocked(n), adf_test |-> <<>>]
    ELSE [kind |-> "pair_stats", status |-> 200, present |-> Unlocked(n),
          adf_test |-> <<"adf">>]

\* a runADFTest that sends every response that is not ok to its catch block
RunADFThrowsOnNotOk(resp) ==
    IF resp.kind = "network" THEN "error_alert"
    ELSE IF ~(resp.status \in 200..299) THEN "error_alert"
    ELSE "result_alert"

\* what runADFTest shows for a response: fetch rejecting and a status other
\* than 400 and 404 end in the catch block
RunADFOutcome(resp) ==
    IF resp.kind = "network" THEN "error_alert"
    ELSE IF ~(resp.status \in 200..299)
    THEN IF resp.status = 400 THEN "insufficient_alert"
         ELSE IF resp.status = 404 THEN "not_found_alert"
         ELSE "error_alert"
    ELSE "result_alert"

PairIdle ==
    /\ pairAligned = 0 /\ adfPc = "idle" /\ adfQuery = <<"", "">>
    /\ adfResp = NoResponse /\ adfAt = 0 /\ adfOutcome = "none" /\ adfRuns = 0
    /\ pairTicks = 0

PairInit ==
    /\ pairAligned \in AlignedCounts
    /\ adfPc = "idle" /\ adfQuery = <<"", "">>
    /\ adfResp = NoResponse /\ adfAt = 0 /\ adfOutcome = "none" /\ adfRuns = 0
    /\ pairTicks = 0

\* ticks of both symbols at one timestamp reach the server
PairTick ==
    /\ pairTicks < MaxPairTicks
    /\ pairTicks' = pairTicks + 1
    /\ pairAligned' = pairAligned + 1
    /\ UNCHANGED <<adfPc, adfQuery, adfResp, adfAt, adfOutcome, adfRuns>>

\* the "Run ADF test" button
RunADFTest(s1, s2) ==
    /\ adfPc \in {"idle", "done"} /\ adfRuns < MaxAdfRuns
    /\ adfRuns' = adfRuns + 1
    /\ adfQuery' = <<s1, s2>>
    /\ adfResp' = NoResponse
    /\ IF s1 = "" \/ s2 = ""
       THEN adfPc' = "done" /\ adfOutcome' = "select_alert"
       ELSE adfPc' = "fetching" /\ adfOutcome' = "none"
    /\ UNCHANGED <<pairAligned, adfAt, pairTicks>>

ServePairDetail(st) ==
    /\ adfPc = "fetching"
    /\ adfResp' = GetPairDetail(adfQuery[1], adfQuery[2], pairAligned, st)
    /\ adfAt' = pairAligned
    /\ adfPc' = "responded"
    /\ UNCHANGED <<pairAligned, adfQuery, adfOutcome, adfRuns, pairTicks>>

\* the backend cannot be reached: fetch rejects
PairFetchFails ==
    /\ adfPc = "fetching"
    /\ adfResp' = [kind |-> "network", status |-> 0]
    /\ adfAt' = pairAligned
    /\ adfPc' = "responded"
    /\ UNCHANGED <<pairAligned, adfQuery, adfOutcome, adfRuns, pairTicks>>

ADFResponse ==
    /\ adfPc = "responded"
    /\ adfOutcome' = RunADFOutcome(adfResp)
    /\ adfPc' = "done"
    /\ UNCHANGED <<pairAligned, adfQuery, adfResp, adfAt, adfRuns, pairTicks>>

\* C16: a pair-detail query for two known symbols with fewer aligned points
\* than ADF requires is answered with insufficient_data carrying required 200
\* and the current count, with adf_test absent and the sub-results unlocked at
\* that count present (price and volume at 40 points), and runADFTest shows it
\* as a handled result, never through its catch block.
C16_InsufficientDataHandled ==
    (/\ adfPc \in {"responded", "done"}
     /\ adfResp.kind \notin {"none", "network"}
     /\ {adfQuery[1], adfQuery[2]} \subseteq Symbols
     /\ adfAt < 200)
    => /\ adfResp.kind = "insufficient_data"
       /\ adfResp.required = 200 /\ adfResp.current = adfAt
       /\ adfResp.adf_test = <<>>
       /\ adfAt >= 1 => "price" \in adfResp.present
       /\ adfAt >= 10 => "volume" \in adfResp.present
       /\ adfPc = "done" => adfOutcome \in {"insufficient_alert", "result_alert"}

C16_Witness ==
    /\ adfPc = "done" /\ adfQuery = <<"A", "B">> /\ adfAt = 40
    /\ adfResp.kind = "insufficient_data" /\ adfResp.status = 400
    /\ adfResp.required = 200 /\ adfResp.current = 40
    /\ {"price", "volume"} \subseteq adfResp.present
    /\ adfOutcome = "insufficient_alert"

(***************************************************************************)
(* AlertModal: the create-alert form and its handleSubmit                  *)
(***************************************************************************)
MaxSubmits == 2

\* texts are sequences of characters
DigitValue == [c \in {"0", "2", "5"} |-> IF c = "0" THEN 0 ELSE IF c = "2" THEN 2 ELSE 5]
ValueInputs ==
    { <<"2", ".", "0">>, <<>>, <<"a">>, <<"2", "a">>, <<"-", ".", "5">>,
      <<" ", "2", "5">>, <<"-">> }
SymbolInputs == {"", "a", "A"}
SelectOptions == {"zscore_above", "zscore_below", "price_above", "price_below"}

NaN == <<>>

RECURSIVE SkipSpaces(_)
SkipSpaces(str) == IF str # <<>> /\ Head(str) = " " THEN SkipSpaces(Tail(str)) ELSE str

RECURSIVE DigitPrefix(_)
DigitPrefix(str) ==
    IF str # <<>> /\ Head(str) \in DOMAIN DigitValue
    THEN <<Head(str)>> \o DigitPrefix(Tail(str)) ELSE <<>>

RECURSIVE DigitsToInt(_)
DigitsToInt(ds) ==
    IF ds = <<>> THEN 0
    ELSE 10 * DigitsToInt(SubSeq(ds, 1, Len(ds) - 1)) + DigitValue[ds[Len(ds)]]

\* parseFloat: leading blanks, a sign, digits, a point and digits; what
\* follows is ignored; NaN when there is no digit. The number is kept in
\* hundredths.
ParseFloat(str) ==
    LET s0 == SkipSpaces(str)
        signed == s0 # <<>> /\ Head(s0) \in {"-", "+"}
        s1 == IF signed THEN Tail(s0) ELSE s0
        ip == DigitPrefix(s1)
        r  == SubSeq(s1, Len(ip) + 1, Len(s1))
        fp == IF r # <<>> /\ Head(r) = "." THEN DigitPrefix(Tail(r)) ELSE <<>>
        f2 == SubSeq(fp \o <<"0", "0">>, 1, 2)
        mag == 100 * DigitsToInt(ip) + DigitsToInt(f2)
    IN  IF ip = <<>> /\ fp = <<>> THEN NaN
        ELSE <<IF signed /\ Head(s0) = "-" THEN 0 - mag ELSE mag>>

\* e.target.value.toUpperCase()
ToUpperCase(str) == IF str = "a" THEN "A" ELSE str

\* the form as the effect sets it when the modal opens
InitialForm(selectedSymbol1) ==
    [ name |-> IF selectedSymbol1 # "" THEN "symbol" ELSE "Symbol",
      condition |-> "zscore_above",
      symbol |-> selectedSymbol1,
      value |-> <<"2", ".", "0">> ]

\* a handleSubmit that checks nothing
NoValidation(fd) == "none"

\* the two checks of handleSubmit before the request
ValidationError(fd) ==
    IF ParseFloat(fd.value) = NaN THEN "invalid_threshold"
    ELSE IF fd.symbol = "" THEN "enter_symbol"
    ELSE "none"

\* JSON.stringify({ ...formData, value })
PostBody(fd) ==
    [name |-> fd.name, condition |-> fd.condition, symbol |-> fd.symbol,
     value |-> ParseFloat(fd.value)]

ModalIdle ==
    /\ isOpen = FALSE /\ formData = InitialForm("")
    /\ submitPc = "idle" /\ postBody = <<>> /\ postResp = "none"
    /\ modalAlert = "none" /\ onSuccessCalls = 0 /\ modalSubmits = 0

ModalInit == ModalIdle

\* the parent opens the modal: setSelectedSymbol(defaultSymbol);
\* setShowAlertModal(true); the effect initialises the form
OpenModal(sym) ==
    /\ ~isOpen
    /\ isOpen' = TRUE
    /\ formData' = InitialForm(sym)
    /\ UNCHANGED <<submitPc, postBody, postResp, modalAlert, onSuccessCalls, modalSubmits>>

\* onClose: the Cancel button or a click on the backdrop
CloseModal ==
    /\ isOpen
    /\ isOpen' = FALSE
    /\ UNCHANGED <<formData, submitPc, postBody, postResp, modalAlert, onSuccessCalls,
                   modalSubmits>>

EditSymbol(text) ==
    /\ isOpen
    /\ formData' = [formData EXCEPT !.symbol = ToUpperCase(text)]
    /\ UNCHANGED <<isOpen, submitPc, postBody, postResp, modalAlert, onSuccessCalls,
                   modalSubmits>>

EditCondition(c) ==
    /\ isOpen
    /\ formData' = [formData EXCEPT !.condition = c]
    /\ UNCHANGED <<isOpen, submitPc, postBody, postResp, modalAlert, onSuccessCalls,
                   modalSubmits>>

EditValue(text) ==
    /\ isOpen
    /\ formData' = [formData EXCEPT !.value = text]
    /\ UNCHANGED <<isOpen, submitPc, postBody, postResp, modalAlert, onSuccessCalls,
                   modalSubmits>>

\* handleSubmit up to its await
HandleSubmit ==
    /\ isOpen /\ submitPc = "idle" /\ modalSubmits < MaxSubmits
    /\ modalSubmits' = modalSubmits + 1
    /\ postResp' = "none"
    /\ IF ValidationError(formData) # "none"
       THEN /\ modalAlert' = ValidationError(formData)
            /\ UNCHANGED <<submitPc, postBody>>
       ELSE /\ postBody' = <<PostBody(formData)>>
            /\ submitPc' = "posting"
            /\ modalAlert' = "none"
    /\ UNCHANGED <<isOpen, formData, onSuccessCalls>>

\* the server answers the POST (created, or rejected), or the request fails
ServePost(resp) ==
    /\ submitPc = "posting"
    /\ resp = "ok" => postBody[1].condition \in Conditions
    /\ postResp' = resp
    /\ submitPc' = "responded"
    /\ UNCHANGED <<isOpen, formData, postBody, modalAlert, onSuccessCalls, modalSubmits>>

\* handleSubmit after the await: alert and onSuccess(), or the catch block;
\* onSuccess is the parent's handleAlertCreated: setShowAlertModal(false)
SubmitResponse ==
    /\ submitPc = "responded"
    /\ submitPc' = "idle"
    /\ IF postResp = "ok"
       THEN /\ modalAlert' = "created"
            /\ onSuccessCalls' = onSuccessCalls + 1
            /\ isOpen' = FALSE
       ELSE /\ modalAlert' = "error"
            /\ UNCHANGED <<onSuccessCalls, isOpen>>
    /\ UNCHANGED <<formData, postBody, postResp, modalSubmits>>

\* C20: AlertModal sends a create-alert request only when the threshold parses
\* to a number and the symbol is not empty, and always with one of the four
\* conditions; onSuccess is called only after an OK response, never after a
\* validation failure or a rejected request.
C20_ModalValidatesBeforeCreate ==
    /\ [](postBody # <<>> =>
            /\ postBody[1].value # <<>>
            /\ postBody[1].symbol # ""
            /\ postBody[1].condition \in
                 {"zscore_above", "zscore_below", "price_above", "price_below"})
    /\ [][/\ submitPc' = "posting" /\ submitPc = "idle" =>
             /\ ParseFloat(formData.value) # <<>> /\ formData.symbol # ""
             /\ postBody'[1].value = ParseFloat(formData.value)
          /\ onSuccessCalls' # onSuccessCalls =>
             submitPc = "responded" /\ postResp = "ok"
          /\ (modalSubmits' # modalSubmits /\ submitPc' = "idle") =>
             /\ onSuccessCalls' = onSuccessCalls /\ isOpen'
             /\ postBody' = postBody
          /\ (submitPc = "responded" /\ submitPc' = "idle" /\ postResp # "ok") =>
             onSuccessCalls' = onSuccessCalls /\ isOpen' = isOpen]_vars

\* a submit stopped by the validation, then a submit that was sent, answered
\* OK and followed by onSuccess
C20_Witness ==
    /\ modalSubmits = 2 /\ onSuccessCalls = 1 /\ ~isOpen
    /\ modalAlert = "created" /\ postResp = "ok"
    /\ postBody # <<>> /\ postBody[1].value = <<-50>>
    /\ postBody[1].condition = "price_below"

(***************************************************************************)
(* ModalManager: ModalProvider's modals map, and GlobalModalContainer's    *)
(* use of it for the 'createAlert' modal                                   *)
(***************************************************************************)
MaxModalOps == 5
ModalIds == {"createAlert", "settings"}
EmptyProps == "{}"
\* the props objects callers pass; openModal's default is the empty object
PropsValues == {EmptyProps, "{analytics, selectedSymbol1, onRefreshAlerts}"}
NoModalOp == [op |-> "none", id |-> "", props |-> EmptyProps]

\* modals[modalId]?.isOpen || false
isModalOpen(m, id) == IF m[id] = <<>> THEN FALSE ELSE m[id][1].isOpen

\* modals[modalId]?.props || {}
getModalProps(m, id) == IF m[id] = <<>> THEN EmptyProps ELSE m[id][1].props

\* setModals(prev => ({...prev, [modalId]: {isOpen: true, props}}))
ModalsAfterOpen(prev, id, props) ==
    [prev EXCEPT ![id] = <<[isOpen |-> TRUE, props |-> props]>>]

\* a closeModal that keeps the props of the entry
CloseKeepsProps(prev, id) ==
    [prev EXCEPT ![id] = <<[isOpen |-> FALSE, props |-> getModalProps(prev, id)]>>]

\* setModals(prev => ({...prev, [modalId]: {isOpen: false, props: {}}}))
ModalsAfterClose(prev, id) ==
    [prev EXCEPT ![id] = <<[isOpen |-> FALSE, props |-> EmptyProps]>>]

ProviderIdle ==
    /\ modals = [id \in ModalIds |-> <<>>] /\ openedIds = {}
    /\ modalOp = NoModalOp /\ modalOps = 0

\* useState({})
ProviderInit == ProviderIdle

\* openModal(modalId, props = {})
openModal(id, props) ==
    /\ modalOps < MaxModalOps
    /\ modals' = ModalsAfterOpen(modals, id, props)
    /\ openedIds' = openedIds \cup {id}
    /\ modalOp' = [op |-> "open", id |-> id, props |-> props]
    /\ modalOps' = modalOps + 1

\* closeModal(modalId)
closeModal(id) ==
    /\ modalOps < MaxModalOps
    /\ modals' = ModalsAfterClose(modals, id)
    /\ modalOp' = [op |-> "close", id |-> id, props |-> EmptyProps]
    /\ modalOps' = modalOps + 1
    /\ UNCHANGED openedIds

\* GlobalModalContainer: handleCloseAlertModal, and handleAlertSuccess up to
\* its await, both of which call closeModal('createAlert')
ContainerCloses ==
    /\ isModalOpen(modals, "createAlert")
    /\ closeModal("createAlert")

\* C23: for every modal id, isModalOpen(id) is false and getModalProps(id) is
\* the empty object until openModal(id, props) is called; after openModal
\* they are true and props; after closeModal(id) they are false and the empty
\* object again; and openModal and closeModal on one id leave the open flag
\* and the props of every other id unchanged.
C23_ModalStatePerId ==
    /\ \A id \in ModalIds \ openedIds :
          ~isModalOpen(modals, id) /\ getModalProps(modals, id) = EmptyProps
    /\ [][modalOps' = modalOps + 1 =>
            /\ modalOp'.op = "open" =>
                  /\ isModalOpen(modals', modalOp'.id)
                  /\ getModalProps(modals', modalOp'.id) = modalOp'.props
            /\ modalOp'.op = "close" =>
                  /\ ~isModalOpen(modals', modalOp'.id)
                  /\ getModalProps(modals', modalOp'.id) = EmptyProps
            /\ \A other \in ModalIds \ {modalOp'.id} :
                  /\ isModalOpen(modals', other) = isModalOpen(modals, other)
                  /\ getModalProps(modals', other) = getModalProps(modals, other)]_vars

\* 'createAlert' was opened with props and closed again while 'settings',
\* opened before it, is still open with its own props
C23_Witness ==
    /\ modalOp.op = "close" /\ modalOp.id = "createAlert"
    /\ "createAlert" \in openedIds
    /\ ~isModalOpen(modals, "createAlert")
    /\ getModalProps(modals, "createAlert") = EmptyProps
    /\ isModalOpen(modals, "settings")
    /\ getModalProps(modals, "settings") # EmptyProps

InitCaps == CapsInit /\ BufIdle /\ EngIdle /\ HookIdle /\ TrigIdle /\ DashIdle /\ PairIdle /\ ModalIdle /\ ProviderIdle /\ NotifIdle
NextCaps ==
    \/ \E s \in Symbols : IngestOne(s) /\ UNCHANGED <<bufVars, engVars, hookVars, trigVars, dashVars, pairVars, modalVars, providerVars, notifVars>>
    \/ IngestAligned /\ UNCHANGED <<bufVars, engVars, hookVars, trigVars, dashVars, pairVars, modalVars, providerVars, notifVars>>
SpecCaps == InitCaps /\ [][NextCaps]_vars

InitBuf == BufInit /\ CapsIdle /\ EngIdle /\ HookIdle /\ TrigIdle /\ DashIdle /\ PairIdle /\ ModalIdle /\ ProviderIdle /\ NotifIdle
NextBuf == \E p \in Prices, ts \in Timestamps : Ingest(p, ts) /\ UNCHANGED <<capsVars, engVars, hookVars, trigVars, dashVars, pairVars, modalVars, providerVars, notifVars>>
SpecBuf == InitBuf /\ [][NextBuf]_vars

InitEngine == EngInit /\ CapsIdle /\ BufIdle /\ HookIdle /\ TrigIdle /\ DashIdle /\ PairIdle /\ ModalIdle /\ ProviderIdle /\ NotifIdle
NextEngine ==
    \/ \E c \in Conditions : CreateRule(c) /\ UNCHANGED <<capsVars, bufVars, hookVars, trigVars, dashVars, pairVars, modalVars, providerVars, notifVars>>
    \/ \E id \in RuleIds : DeleteRule(id) /\ UNCHANGED <<capsVars, bufVars, hookVars, trigVars, dashVars, pairVars, modalVars, providerVars, notifVars>>
    \/ \E snap \in Snapshots : EvalBegin(snap) /\ UNCHANGED <<capsVars, bufVars, hookVars, trigVars, dashVars, pairVars, modalVars, providerVars, notifVars>>
    \/ EvalFire /\ UNCHANGED <<capsVars, bufVars, hookVars, trigVars, dashVars, pairVars, modalVars, providerVars, notifVars>>
    \/ EvalPublish /\ UNCHANGED <<capsVars, bufVars, hookVars, trigVars, dashVars, pairVars, modalVars, providerVars, notifVars>>
    \/ \E s \in Subs : Subscribe(s) /\ UNCHANGED <<capsVars, bufVars, hookVars, trigVars, dashVars, pairVars, modalVars, providerVars, notifVars>>
    \/ \E s \in Subs : Unsubscribe(s) /\ UNCHANGED <<capsVars, bufVars, hookVars, trigVars, dashVars, pairVars, modalVars, providerVars, notifVars>>
    \/ \E s \in Subs : SendToSubscriber(s) /\ UNCHANGED <<capsVars, bufVars, hookVars, trigVars, dashVars, pairVars, modalVars, providerVars, notifVars>>
SpecEngine == InitEngine /\ [][NextEngine]_vars

InitHook == HookInit /\ StoreInit /\ CapsIdle /\ BufIdle /\ TrigIdle /\ DashIdle /\ PairIdle /\ ModalIdle /\ ProviderIdle /\ NotifIdle
NextHook ==
    \/ RefreshAlerts /\ UNCHANGED <<capsVars, bufVars, trigVars, dashVars, pairVars, modalVars, providerVars, notifVars>>
    \/ \E c \in FetchCallers, ok \in BOOLEAN :
          ServeListAlerts(c, ok) /\ UNCHANGED <<capsVars, bufVars, trigVars, dashVars, pairVars, modalVars, providerVars, notifVars>>
    \/ \E c \in FetchCallers : FetchAlertsDone(c) /\ UNCHANGED <<capsVars, bufVars, trigVars, dashVars, pairVars, modalVars, providerVars, notifVars>>
    \/ CreateAlert /\ UNCHANGED <<capsVars, bufVars, trigVars, dashVars, pairVars, modalVars, providerVars, notifVars>>
    \/ \E cond \in HookConditions : ServeCreateOk(cond) /\ UNCHANGED <<capsVars, bufVars, trigVars, dashVars, pairVars, modalVars, providerVars, notifVars>>
    \/ ServeCreateFail /\ UNCHANGED <<capsVars, bufVars, trigVars, dashVars, pairVars, modalVars, providerVars, notifVars>>
    \/ CreateResponse /\ UNCHANGED <<capsVars, bufVars, trigVars, dashVars, pairVars, modalVars, providerVars, notifVars>>
    \/ \E id \in KnownIds : DeleteAlert(id) /\ UNCHANGED <<capsVars, bufVars, trigVars, dashVars, pairVars, modalVars, providerVars, notifVars>>
    \/ ServeDeleteOk /\ UNCHANGED <<capsVars, bufVars, trigVars, dashVars, pairVars, modalVars, providerVars, notifVars>>
    \/ \E resp \in {"not_found", "failed"} :
          ServeDeleteFail(resp) /\ UNCHANGED <<capsVars, bufVars, trigVars, dashVars, pairVars, modalVars, providerVars, notifVars>>
    \/ DeleteResponse /\ UNCHANGED <<capsVars, bufVars, trigVars, dashVars, pairVars, modalVars, providerVars, notifVars>>
    \/ RefreshTimerFires /\ UNCHANGED <<capsVars, bufVars, trigVars, dashVars, pairVars, modalVars, providerVars, notifVars>>
SpecHook == InitHook /\ [][NextHook]_vars

trigFrame == UNCHANGED <<capsVars, bufVars, hookVars, dashVars, pairVars, modalVars, providerVars, notifVars>>
InitTrig == TrigInit /\ CapsIdle /\ BufIdle /\ HookIdle /\ DashIdle /\ PairIdle /\ ModalIdle /\ ProviderIdle /\ NotifIdle
NextTrig ==
    \/ HookWsOpens /\ trigFrame
    \/ \E snap \in TrigSnapshots, fire \in BOOLEAN : ServerPublish(snap, fire) /\ trigFrame
    \/ HookOnMessage /\ trigFrame
    \/ PollTimerFires /\ trigFrame
    \/ \E resp \in PollResponses : ServeTriggered(resp) /\ trigFrame
    \/ PollResponse /\ trigFrame
SpecTrig == InitTrig /\ [][NextTrig]_vars

\* the browser delivers socket messages and fetch responses, the interval
\* timer keeps firing, and a poll gets through again and again
TrigFairness ==
    /\ WF_vars(HookOnMessage /\ trigFrame)
    /\ WF_vars(PollTimerFires /\ trigFrame)
    /\ WF_vars(PollResponse /\ trigFrame)
    /\ SF_vars(ServeTriggered("ok") /\ trigFrame)
SpecTrigFair == InitTrig /\ [][NextTrig]_vars /\ TrigFairness

dashFrame == UNCHANGED <<capsVars, bufVars, engVars, hookVars, trigVars, pairVars, modalVars, providerVars, notifVars>>
InitDash == DashInit /\ CapsIdle /\ BufIdle /\ EngIdle /\ HookIdle /\ TrigIdle /\ PairIdle /\ ModalIdle /\ ProviderIdle /\ NotifIdle
NextDash ==
    \/ SymbolsLoaded /\ dashFrame
    \/ \E s \in DashSymbols : ChangeSymbol1(s) /\ dashFrame
    \/ \E s \in DashSymbols : ChangeSymbol2(s) /\ dashFrame
    \/ Unmount /\ dashFrame
    \/ \E i \in 1..Len(sockets) : SocketOpens(i) /\ dashFrame
    \/ \E i \in 1..Len(sockets), data \in DashMessages : DashOnMessage(i, data) /\ dashFrame
    \/ \E i \in 1..Len(sockets) : SocketFails(i) /\ dashFrame
    \/ \E i \in 1..Len(sockets) : SocketClosed(i) /\ dashFrame
    \/ \E i \in 1..Len(sockets) : ReconnectTimerFires(i) /\ dashFrame
SpecDash == InitDash /\ [][NextDash]_vars

pairFrame == UNCHANGED <<capsVars, bufVars, engVars, hookVars, trigVars, dashVars, modalVars, providerVars, notifVars>>
InitPair == PairInit /\ CapsIdle /\ BufIdle /\ EngIdle /\ HookIdle /\ TrigIdle /\ DashIdle /\ ModalIdle /\ ProviderIdle /\ NotifIdle
NextPair ==
    \/ PairTick /\ pairFrame
    \/ \E s1, s2 \in QuerySymbols : RunADFTest(s1, s2) /\ pairFrame
    \/ \E st \in {200, 400} : ServePairDetail(st) /\ pairFrame
    \/ PairFetchFails /\ pairFrame
    \/ ADFResponse /\ pairFrame
SpecPair == InitPair /\ [][NextPair]_vars

fetchFrame == UNCHANGED <<capsVars, bufVars, dashVars, pairVars, modalVars, providerVars, notifVars>>
notifFrame == UNCHANGED <<capsVars, bufVars, dashVars, pairVars, modalVars, providerVars>>
InitFetch == FetchInit /\ CapsIdle /\ BufIdle /\ DashIdle /\ PairIdle /\ ModalIdle /\ ProviderIdle /\ NotifIdle
NextFetch ==
    \/ RefreshAlerts /\ UNCHANGED trigVars /\ fetchFrame
    \/ \E ok \in BOOLEAN : ServeListAlerts("refresh", ok) /\ UNCHANGED trigVars /\ fetchFrame
    \/ FetchAlertsDone("refresh") /\ UNCHANGED trigVars /\ fetchFrame
    \/ PollTimerFires /\ UNCHANGED hookVars /\ fetchFrame
    \/ \E resp \in PollResponses : ServeTriggered(resp) /\ UNCHANGED hookVars /\ fetchFrame
    \/ PollResponse /\ UNCHANGED hookVars /\ fetchFrame
    \/ \E k \in 1..TrigCap : DismissTriggeredAlert(k) /\ UNCHANGED hookVars /\ notifFrame
    \/ ClearAll /\ UNCHANGED hookVars /\ notifFrame
SpecFetch == InitFetch /\ [][NextFetch]_vars

providerFrame == UNCHANGED <<capsVars, bufVars, engVars, hookVars, trigVars, dashVars, pairVars,
                             modalVars, notifVars>>
InitProvider == ProviderInit /\ CapsIdle /\ BufIdle /\ EngIdle /\ HookIdle /\ TrigIdle /\ DashIdle /\ PairIdle /\ ModalIdle /\ NotifIdle
NextProvider ==
    \/ \E id \in ModalIds, props \in PropsValues : openModal(id, props) /\ providerFrame
    \/ \E id \in ModalIds : closeModal(id) /\ providerFrame
    \/ ContainerCloses /\ providerFrame
SpecProvider == InitProvider /\ [][NextProvider]_vars

modalFrame == UNCHANGED <<capsVars, bufVars, engVars, hookVars, trigVars, dashVars, pairVars,
                          providerVars, notifVars>>
InitModal == ModalInit /\ CapsIdle /\ BufIdle /\ EngIdle /\ HookIdle /\ TrigIdle /\ DashIdle /\ PairIdle /\ ProviderIdle /\ NotifIdle
NextModal ==
    \/ \E sym \in {"", "A"} : OpenModal(sym) /\ modalFrame
    \/ CloseModal /\ modalFrame
    \/ \E text \in SymbolInputs : EditSymbol(text) /\ modalFrame
    \/ \E c \in SelectOptions : EditCondition(c) /\ modalFrame
    \/ \E text \in ValueInputs : EditValue(text) /\ modalFrame
    \/ HandleSubmit /\ modalFrame
    \/ \E resp \in {"ok", "rejected", "network"} : ServePost(resp) /\ modalFrame
    \/ SubmitResponse /\ modalFrame
SpecModal == InitModal /\ [][NextModal]_vars

====
